---- MODULE Spec2Model ----
(***************************************************************************)
(* Stream lifecycle of ai-avatar-stream: the StreamManager singleton       *)
(* (backend/services/stream_manager.py), its callers in the FastAPI        *)
(* router (backend/routers/stream.py) and the background worker thread     *)
(* _run_stream.                                                            *)
(*                                                                         *)
(* The worker is a thread of its own and is modelled at the granularity    *)
(* of its reads and writes of the StreamManager fields.  The router's      *)
(* handlers are coroutines that call the StreamManager without awaiting,   *)
(* so the event loop runs one of them at a time; each of them interleaves  *)
(* with the worker, which only `with self._lock` holds back.               *)
(***************************************************************************)
EXTENDS Integers, Sequences, FiniteSets, TLC

\* ------------------------------------------------------------------ bounds
\* Largest max_turns argument a caller passes to start_stream.
MaxTurnsArg == 2
\* Total number of control-surface calls (start, stop, status) issued.
MaxCalls == 2
\* Largest max_retries a function is decorated with.
MaxRetries == 3

\* ------------------------------------------------------- program constants
\* config.py: MAX_TURNS, the value StreamManager.__init__ stores.
MAX_TURNS == 5
\* config.py: TOPIC_SWITCH_EVERY.
TOPIC_SWITCH_EVERY == 8
\* get_status exposes errors[-10:].
STATUS_ERRORS == 10
\* HTTP codes raised by the router.
HTTP_OK == 200
HTTP_CONFLICT == 409
HTTP_BAD_REQUEST == 400

\* config.py: TOPICS (two of the eight configured topics).
TOPICS == {"T1", "T2"}
\* dialogue.py line 14: @retry_with_backoff(max_retries=3, ...)
GEN_MAX_RETRIES == 3
\* utils/retry.py line 25: exponential_base, left at its default by both
\* decorated functions.
EXPONENTIAL_BASE == 2
\* base_delay values a function is decorated with.
BaseDelays == {1, 2}
\* Exception classes the decorated function raises, and the tuples of
\* classes passed as `exceptions`.
ErrorClasses == {"Transient", "Other"}
RetryableSets == {{"Transient"}, {"Transient", "Other"}}

\* How the external services behave during a behaviour: "any" lets every
\* call succeed or fail on its own; the others fix one behaviour:
\* every call succeeds ("ok"), synthesis returns False ("tts_false"),
\* synthesis raises on every attempt ("tts_raise"), Groq answers every
\* attempt with RateLimitError ("rate_limited") or APIError ("gen_error").
Envs == {"any", "ok", "tts_false", "tts_raise", "rate_limited", "gen_error"}
\* The behaviours of the sessions of several runs: every call succeeds,
\* the synthesis raises, or the transcript file cannot be opened
\* ("file_error") while every service answers.
SessionEnvs == {"ok", "tts_raise", "file_error"}
\* max_turns values of the long runs (schemas.py: 1 <= max_turns <= 100).
RunLengths == {1, 10, 12, 20}

\* Requests of the control surface that are served at the same time.
Callers == {"c1", "c2"}
\* Worker threads, numbered in the order start_stream creates them.
Workers == 1..MaxCalls
\* Websocket connections to /ws/transcript that are open at the same time.
Observers == {"o1", "o2"}
\* config.py AGENTS: the keys of the two agents.
Agents == {"agent1", "agent2"}
\* Threads that construct the StreamManager at the same time.
Builders == {"b1", "b2", "b3"}

VARIABLES
    \* StreamManager fields
    is_running, current_turn, current_topic, max_turns, errors,
    stop_flag, stream_thread,
    lock,              \* StreamManager._lock: "free", a caller, or "worker"
    \* worker threads (_run_stream): position and locals
    wpc, turn, successful_turns, failed_turns,
    attempt,           \* retry_with_backoff: attempt of generate_response
    text,              \* text of the turn in progress: "reply" or "fallback"
    spoke,             \* agent of the latest utterance the run has emitted
    topic_switches,    \* turn indices after which the run switched topic
    env,               \* behaviour of the external services
    \* control-surface callers: position, argument, status dict being built,
    \* outcome of the call
    cpc, carg, snap, result,
    calls,             \* number of calls issued so far
    at_call,           \* is_running at the moment a status call was issued
    raced,             \* both callers issued start together on a stopped system
    budget,            \* number of calls the callers issue in the behaviour
    \* module state of the collaborators
    tracked,           \* whether the behaviour follows this module state
    transcript_queue,  \* StreamManager.transcript_queue (queue.Queue)
    pushed,            \* every message put on the queue, in order
    popped,            \* every message taken off the queue, with its taker
    idle_thread_running,   \* core/avatar.py: _idle_thread_running
    conversation_history,  \* dialogue.py: conversation_history
    transcript_file,   \* core/transcript.py: the lines of TRANSCRIPT_FILE
    idle_loops,        \* core/avatar.py: live idle_loop threads per agent
    \* websocket connections (transcript_websocket): position, message in
    \* hand, messages delivered, whether it was opened before any push
    opc, msg, received, early,
    \* construction of the singleton: position of each constructing thread,
    \* cls._instance (0 for None, else the number of the object created),
    \* the instance's _initialized attribute, how often lines 50-56 ran and
    \* how many Queue objects line 59 created
    bpc, instance, initialized, init_runs, queues,
    \* one call of a function decorated with retry_with_backoff
    r_pc, r_max, r_base, r_exceptions, r_attempt, r_calls, r_slept, r_result

smvars == <<is_running, current_turn, current_topic, max_turns, errors, stop_flag>>
\* the module state the worker writes
wside == <<transcript_queue, pushed, idle_thread_running, conversation_history,
           transcript_file, idle_loops>>
\* the construction of the singleton
bvars == <<bpc, instance, initialized, init_runs, queues>>
\* the websocket connections
ovars == <<popped, opc, msg, received, early>>
\* the retried call
rvars == <<r_pc, r_max, r_base, r_exceptions, r_attempt, r_calls, r_slept, r_result>>
wvars == <<wpc, turn, successful_turns, failed_turns, attempt, text, spoke,
          topic_switches, env, tracked, budget, wside, ovars, rvars, bvars>>
\* the worker's locals other than its position and its counters, and all
\* that start_stream has no access to
wloc == <<attempt, text, spoke, topic_switches, env, tracked, budget, wside,
          ovars, rvars, bvars>>
cvars == <<cpc, carg, snap, result, calls, at_call, raced>>
vars == <<is_running, current_turn, current_topic, max_turns, errors,
          stop_flag, stream_thread, lock, wpc, turn, successful_turns,
          failed_turns, attempt, text, spoke, topic_switches, env,
          cpc, carg, snap, result, calls, at_call, raced, budget,
          tracked, transcript_queue, pushed, popped, idle_thread_running,
          conversation_history, transcript_file, idle_loops,
          opc, msg, received, early,
          bpc, instance, initialized, init_runs, queues,
          r_pc, r_max, r_base, r_exceptions, r_attempt, r_calls, r_slept,
          r_result>>

\* ----------------------------------------------------------------- helpers
\* Variant: the slice is s[:n], the first n entries.
LastN_First(s, n) == IF Len(s) <= n THEN s ELSE SubSeq(s, 1, n)

\* Python s[-n:]
LastN(s, n) == IF Len(s) <= n THEN s ELSE SubSeq(s, Len(s) - n + 1, Len(s))

\* f"Turn {turn + 1}: TTS failed" / f"Turn {turn + 1}: {e}" / f"Fatal: {e}"
TurnError(t, what) == [turn |-> t + 1, what |-> what]
FatalError == [turn |-> 0, what |-> "Fatal"]

NoStatus == [is_running |-> FALSE, current_turn |-> 0, current_topic |-> "",
             max_turns |-> 0, errors |-> <<>>]
NoResult == [op |-> "none", success |-> FALSE]
\* A connection has no message in hand.
NoMessage == [agent_name |-> "none", topic |-> "", turn |-> 0]

\* routers/stream.py: HTTPException(409) when start_stream reports failure
StartHttp(success) == IF success THEN HTTP_OK ELSE HTTP_CONFLICT
\* routers/stream.py: HTTPException(400) when stop_stream reports failure
StopHttp(success) == IF success THEN HTTP_OK ELSE HTTP_BAD_REQUEST
\* routers/stream.py: the HTTP status the router answers a call with
Http(r) == CASE r.op = "start" -> StartHttp(r.success)
             [] r.op = "stop" -> StopHttp(r.success)
             [] OTHER -> HTTP_OK

\* Variant: the guard keeps three turns clear of the end instead of two.
TopicSwitchDue_Early(t, maxT) == (t + 1) % TOPIC_SWITCH_EVERY = 0 /\ t < maxT - 3

\* if (turn + 1) % TOPIC_SWITCH_EVERY == 0 and turn < self.max_turns - 2
TopicSwitchDue(t, maxT) == (t + 1) % TOPIC_SWITCH_EVERY = 0 /\ t < maxT - 2

\* -------------------------------------------------------------------- Init
\* No call of a decorated function is in progress.
RetryIdle ==
    /\ r_pc = "idle"
    /\ r_max = 0
    /\ r_base = 0
    /\ r_exceptions = {}
    /\ r_attempt = 0
    /\ r_calls = <<>>
    /\ r_slept = <<>>
    /\ r_result = [kind |-> "none"]

\* No StreamManager() call has been made: cls._instance is None (line 34).
NotConstructed ==
    /\ bpc = [b \in Builders |-> "idle"]
    /\ instance = 0
    /\ initialized = "unset"
    /\ init_runs = 0
    /\ queues = 0

\* routers/stream.py line 25 and websockets/transcript.py line 20: the
\* imports of the application have constructed the StreamManager, one
\* after the other in the main thread.
Constructed ==
    /\ bpc = [b \in Builders |-> "idle"]
    /\ instance = 1
    /\ initialized = "true"
    /\ init_runs = 1
    /\ queues = 1

\* The values StreamManager.__init__ gives the fields (the queue is
\* created empty, line 59) and the module level of core/avatar.py
\* (line 118) and dialogue.py (line 11), with the external services
\* behaving as e and the callers issuing n calls.  The module state of the
\* collaborators is followed when tr is true.
InitState(e, tr, n) ==
    /\ env = e
    /\ tracked = tr
    /\ budget = n
    /\ transcript_file = <<>>
    /\ idle_loops = [a \in Agents |-> 0]
    /\ transcript_queue = <<>>
    /\ pushed = <<>>
    /\ popped = <<>>
    /\ idle_thread_running = FALSE
    /\ conversation_history = <<>>
    /\ opc = [o \in Observers |-> "closed"]
    /\ msg = [o \in Observers |-> NoMessage]
    /\ received = [o \in Observers |-> <<>>]
    /\ early = [o \in Observers |-> FALSE]
    /\ is_running = FALSE
    /\ current_turn = 0
    /\ current_topic = ""
    /\ max_turns = MAX_TURNS
    /\ errors = <<>>
    /\ stop_flag = FALSE
    /\ stream_thread = 0
    /\ lock = "free"
    /\ wpc = [w \in Workers |-> "unborn"]
    /\ turn = [w \in Workers |-> 0]
    /\ successful_turns = [w \in Workers |-> 0]
    /\ failed_turns = [w \in Workers |-> 0]
    /\ attempt = [w \in Workers |-> 0]
    /\ text = [w \in Workers |-> ""]
    /\ spoke = [w \in Workers |-> ""]
    /\ topic_switches = [w \in Workers |-> {}]
    /\ cpc = [c \in Callers |-> "idle"]
    /\ carg = [c \in Callers |-> 0]
    /\ snap = [c \in Callers |-> NoStatus]
    /\ result = [c \in Callers |-> NoResult]
    /\ calls = 0
    /\ at_call = [c \in Callers |-> FALSE]
    /\ raced = FALSE

\* The application after its imports.
InitSystem(e, tr) == InitState(e, tr, MaxCalls) /\ Constructed

InitAll(e, tr) == InitSystem(e, tr) /\ RetryIdle

\* The specifications of the StreamManager fields leave the module state
\* of the collaborators out: the worker writes it and never branches on it.
InitWith(e) == InitAll(e, FALSE)

Init == InitWith("any")

\* ------------------------------------------------------- control surface
\* A new request can be issued.  Requests are interchangeable: c2 stands
\* for a request that arrives while c1 is waiting or being served.
CanCall(c) ==
    /\ cpc[c] = "idle"
    /\ calls < budget
    /\ c = "c2" => cpc["c1"] # "idle"

\* routers/stream.py: the handlers are `async def` and call the
\* StreamManager synchronously, so the event loop is inside at most one
\* of them; a request that is not yet served waits.
LoopFree == \A c \in Callers : cpc[c] \in {"idle", "start_wait"}

\* POST /api/stream/start: the request is issued and waits for the event
\* loop and for `with self._lock`.
StartCall(c) ==
    /\ CanCall(c)
    /\ calls' = calls + 1
    /\ cpc' = [cpc EXCEPT ![c] = "start_wait"]
    /\ result' = [result EXCEPT ![c] = NoResult]
    /\ raced' = (~is_running /\ \A d \in Callers \ {c} : cpc[d] = "start_wait")
    /\ UNCHANGED <<smvars, stream_thread, lock, wvars, carg, snap, at_call>>

\* Variant: the start guard never finds a stream running.
AlreadyRunning_Never == FALSE

\* start_stream line 77: `if self.is_running`
AlreadyRunning == is_running

\* Variant: the reset of errors happens before the guard is tested.
RejectStart_ClearsErrors(c) ==
    /\ result' = [result EXCEPT ![c] = [op |-> "start", success |-> FALSE]]
    /\ errors' = <<>>
    /\ UNCHANGED <<is_running, current_turn, current_topic, max_turns,
                   stop_flag, stream_thread, wvars>>

\* start_stream lines 78-83: the rejecting branch reports failure and
\* writes nothing
RejectStart(c) ==
    /\ result' = [result EXCEPT ![c] = [op |-> "start", success |-> FALSE]]
    /\ UNCHANGED <<smvars, stream_thread, wvars>>

\* Variant: the accepting branch also empties the transcript queue.
AcceptStart_ClearsQueue(c, m) ==
    /\ max_turns' = m
    /\ current_turn' = 0
    /\ current_topic' = ""
    /\ errors' = <<>>
    /\ stop_flag' = FALSE
    /\ is_running' = TRUE
    /\ stream_thread' = stream_thread + 1
    /\ wpc' = [wpc EXCEPT ![stream_thread + 1] = "setup"]
    /\ result' = [result EXCEPT ![c] = [op |-> "start", success |-> TRUE]]
    /\ transcript_queue' = IF tracked THEN <<>> ELSE transcript_queue
    /\ UNCHANGED <<turn, successful_turns, failed_turns, attempt, text, spoke,
                   topic_switches, env, tracked, budget, pushed,
                   idle_thread_running, conversation_history, transcript_file,
                   idle_loops, ovars, rvars, bvars>>

\* Variant: the accepting branch also clears the conversation history.
AcceptStart_ResetsHistory(c, m) ==
    /\ max_turns' = m
    /\ current_turn' = 0
    /\ current_topic' = ""
    /\ errors' = <<>>
    /\ stop_flag' = FALSE
    /\ is_running' = TRUE
    /\ stream_thread' = stream_thread + 1
    /\ wpc' = [wpc EXCEPT ![stream_thread + 1] = "setup"]
    /\ result' = [result EXCEPT ![c] = [op |-> "start", success |-> TRUE]]
    /\ conversation_history' = IF tracked THEN <<>> ELSE conversation_history
    /\ UNCHANGED <<turn, successful_turns, failed_turns, attempt, text, spoke,
                   topic_switches, env, tracked, budget, transcript_queue,
                   pushed, idle_thread_running, transcript_file, idle_loops,
                   ovars, rvars, bvars>>

\* Variant: the accepting branch leaves the stop flag as it finds it.
AcceptStart_KeepsFlag(c, m) ==
    /\ max_turns' = m
    /\ current_turn' = 0
    /\ current_topic' = ""
    /\ errors' = <<>>
    /\ is_running' = TRUE
    /\ stream_thread' = stream_thread + 1
    /\ wpc' = [wpc EXCEPT ![stream_thread + 1] = "setup"]
    /\ result' = [result EXCEPT ![c] = [op |-> "start", success |-> TRUE]]
    /\ UNCHANGED <<stop_flag, turn, successful_turns, failed_turns, wloc>>

\* Variant: the accepting branch forgets `self.is_running = True`.
AcceptStart_NoFlag(c, m) ==
    /\ max_turns' = m
    /\ current_turn' = 0
    /\ current_topic' = ""
    /\ errors' = <<>>
    /\ stop_flag' = FALSE
    /\ stream_thread' = stream_thread + 1
    /\ wpc' = [wpc EXCEPT ![stream_thread + 1] = "setup"]
    /\ result' = [result EXCEPT ![c] = [op |-> "start", success |-> TRUE]]
    /\ UNCHANGED <<is_running, turn, successful_turns, failed_turns, wloc>>

\* start_stream lines 85-94: reset the state, set is_running, create and
\* start the worker thread
AcceptStart(c, m) ==
    /\ max_turns' = m
    /\ current_turn' = 0
    /\ current_topic' = ""
    /\ errors' = <<>>
    /\ stop_flag' = FALSE
    /\ is_running' = TRUE
    /\ stream_thread' = stream_thread + 1
    /\ wpc' = [wpc EXCEPT ![stream_thread + 1] = "setup"]
    /\ result' = [result EXCEPT ![c] = [op |-> "start", success |-> TRUE]]
    /\ UNCHANGED <<turn, successful_turns, failed_turns, wloc>>

\* The max_turns arguments the callers pass under e.
Lengths(e) == IF e = "any" THEN 1..MaxTurnsArg ELSE RunLengths

\* start_stream lines 66-101, called with max_turns = m: take the lock and
\* test is_running.  The lock stays held while get_status builds the
\* returned status.
StartEnter(c, m) ==
    /\ cpc[c] = "start_wait"
    /\ LoopFree
    /\ lock = "free"
    /\ lock' = c
    /\ cpc' = [cpc EXCEPT ![c] = "st_running"]
    /\ carg' = [carg EXCEPT ![c] = m]
    /\ IF AlreadyRunning THEN RejectStart(c) ELSE AcceptStart(c, m)
    /\ UNCHANGED <<snap, calls, at_call, raced>>

\* Variant: stop_stream sets the flag before looking at is_running.
StopAccepted_Always == TRUE

\* stop_stream line 118: the flag is set only when a stream is running
StopAccepted == is_running

\* POST /api/stream/stop: stop_stream, whole body under the lock.
StopCall(c) ==
    /\ CanCall(c)
    /\ LoopFree
    /\ lock = "free"
    /\ calls' = calls + 1
    /\ stop_flag' = IF StopAccepted THEN TRUE ELSE stop_flag
    /\ result' = [result EXCEPT ![c] = [op |-> "stop", success |-> is_running]]
    /\ raced' = FALSE
    /\ UNCHANGED <<is_running, current_turn, current_topic, max_turns, errors,
                   stream_thread, lock, wvars, cpc, carg, snap, at_call>>

\* GET /api/stream/status: get_status, called without the lock.
StatusCall(c) ==
    /\ CanCall(c)
    /\ LoopFree
    /\ calls' = calls + 1
    /\ cpc' = [cpc EXCEPT ![c] = "st_running"]
    /\ result' = [result EXCEPT ![c] = [op |-> "status", success |-> TRUE]]
    /\ at_call' = [at_call EXCEPT ![c] = is_running]
    /\ raced' = FALSE
    /\ UNCHANGED <<smvars, stream_thread, lock, wvars, carg, snap>>

\* get_status lines 133-139: the dict is built by five separate reads.
ReadRunning(c) ==
    /\ cpc[c] = "st_running"
    /\ snap' = [snap EXCEPT ![c].is_running = is_running]
    /\ cpc' = [cpc EXCEPT ![c] = "st_turn"]
    /\ UNCHANGED <<smvars, stream_thread, lock, wvars, carg, result, calls, at_call, raced>>

ReadTurn(c) ==
    /\ cpc[c] = "st_turn"
    /\ snap' = [snap EXCEPT ![c].current_turn = current_turn]
    /\ cpc' = [cpc EXCEPT ![c] = "st_topic"]
    /\ UNCHANGED <<smvars, stream_thread, lock, wvars, carg, result, calls, at_call, raced>>

ReadTopic(c) ==
    /\ cpc[c] = "st_topic"
    /\ snap' = [snap EXCEPT ![c].current_topic = current_topic]
    /\ cpc' = [cpc EXCEPT ![c] = "st_max"]
    /\ UNCHANGED <<smvars, stream_thread, lock, wvars, carg, result, calls, at_call, raced>>

ReadMax(c) ==
    /\ cpc[c] = "st_max"
    /\ snap' = [snap EXCEPT ![c].max_turns = max_turns]
    /\ cpc' = [cpc EXCEPT ![c] = "st_errors"]
    /\ UNCHANGED <<smvars, stream_thread, lock, wvars, carg, result, calls, at_call, raced>>

\* The last read completes the dict.
ReadErrors(c) ==
    /\ cpc[c] = "st_errors"
    /\ snap' = [snap EXCEPT ![c].errors = LastN(errors, STATUS_ERRORS)]
    /\ cpc' = [cpc EXCEPT ![c] = "ret"]
    /\ UNCHANGED <<smvars, stream_thread, lock, wvars, carg, result, calls, at_call, raced>>

\* The call returns the dict in snap[c]; a start_stream caller leaves
\* `with self._lock` here and the router answers the request.
Return(c) ==
    /\ cpc[c] = "ret"
    /\ lock' = IF lock = c THEN "free" ELSE lock
    /\ snap' = [snap EXCEPT ![c] = NoStatus]
    /\ carg' = [carg EXCEPT ![c] = 0]
    /\ at_call' = [at_call EXCEPT ![c] = FALSE]
    /\ result' = [result EXCEPT ![c] = IF @.op = "status" THEN NoResult ELSE @]
    /\ cpc' = [cpc EXCEPT ![c] = "idle"]
    /\ UNCHANGED <<smvars, stream_thread, wvars, calls, raced>>

\* ------------------------------------------------------------ the worker
\* Steps of _run_stream; w is the thread start_stream created.
cunch == <<cvars, stream_thread, env, tracked, budget, ovars, rvars, bvars>>

Goto(w, pc) == wpc' = [wpc EXCEPT ![w] = pc]

\* `continue` / end of the loop body: the for loop advances to the next turn
NextTurn(w) == turn' = [turn EXCEPT ![w] = @ + 1]

\* What the calls of lines 173-184 and 262-274 can do under e: return
\* (TRUE) or raise (FALSE).
SetupOutcomes(e) == IF e = "any" THEN BOOLEAN ELSE {TRUE}

\* What one text_to_speech call (core/tts.py, with its retries) can do
\* under e: return True, return False (quota, file system), or raise once
\* the retries are exhausted.
TtsOutcomes(e) ==
    CASE e = "any" -> {"ok", "false", "raise"}
      [] e = "tts_false" -> {"false"}
      [] e = "tts_raise" -> {"raise"}
      [] OTHER -> {"ok"}

\* What one attempt of client.chat.completions.create can do under e.
GroqOutcomes(e) ==
    CASE e = "any" -> {"text", "rate_limit", "api_error", "error"}
      [] e = "rate_limited" -> {"rate_limit"}
      [] e = "gen_error" -> {"api_error"}
      [] OTHER -> {"text"}

\* dialogue.py lines 23-80, one call of the decorated body: the reply is
\* returned, RateLimitError is re-raised (line 66), APIError and any other
\* exception are answered with the fallback text (lines 71-73, 78-80).
GenerateAttempt(o) ==
    CASE o = "text" -> "reply"
      [] o = "rate_limit" -> "raise"
      [] OTHER -> "fallback"

\* The value a write gives to a piece of the collaborators' module state:
\* the written value where the behaviour follows that state.
Track(new, old) == IF tracked THEN new ELSE old

\* What the open() of the transcript file can do under e: succeed (TRUE)
\* or raise PermissionError / OSError (FALSE).
FileOutcomes(e) ==
    CASE e = "any" -> BOOLEAN
      [] e = "file_error" -> {FALSE}
      [] OTHER -> {TRUE}

\* core/transcript.py lines 60-68 and broadcast_transcript line 152: the
\* message carries the agent's name, the topic argument and the turn
\* number in force (the text is the agent's text of that turn).
Message(agent, topic) ==
    [agent_name |-> agent, topic |-> topic, turn |-> current_turn]

\* Variant: the queue hands out the newest message first (LIFO).
Push_Front(m) ==
    /\ transcript_queue' = Track(<<m>> \o transcript_queue, transcript_queue)
    /\ pushed' = Track(Append(pushed, m), pushed)

\* broadcast_transcript lines 155-156: self.transcript_queue.put_nowait
Push(m) ==
    /\ transcript_queue' = Track(Append(transcript_queue, m), transcript_queue)
    /\ pushed' = Track(Append(pushed, m), pushed)

\* core/transcript.py lines 51-55: what log_message writes to the file,
\* the agent's line or the topic marker.
FileLine(m) == [agent_name |-> m.agent_name, topic |-> m.topic]

\* core/transcript.py log_message lines 50-90: the line is appended to
\* the file and then, inside the same try block, the message is broadcast;
\* when the file cannot be opened the handlers of lines 73-76 log the
\* error and nothing is broadcast.
LogMessage(m) ==
    \E ok \in FileOutcomes(env) :
        IF ok
        THEN /\ transcript_file' =
                    Track(Append(transcript_file, FileLine(m)), transcript_file)
             /\ Push(m)
        ELSE UNCHANGED <<transcript_file, transcript_queue, pushed>>

\* core/avatar.py lines 120-146, start_idle_animation(a) on the module
\* state st (the flag and the live loops): nothing when the flag is set,
\* else the flag is set and a thread running idle_loop for a is started.
StartIdleAnimation(st, a) ==
    IF st.flag
    THEN st
    ELSE [flag |-> TRUE, loops |-> [st.loops EXCEPT ![a] = @ + 1]]

\* core/transcript.py lines 25-38, init_transcript: open(..., "w") leaves
\* the header only; a failure is logged and the file stays as it is.
InitTranscript(ok) == IF ok THEN <<>> ELSE transcript_file

\* lines 173-184: makedirs, init_transcript, connect_obs, set_both_idle,
\* start_idle_animation("agent1") and start_idle_animation("agent2").  An
\* exception (makedirs) reaches the outer handler.
WorkerSetup(w) ==
    /\ wpc[w] = "setup"
    /\ \E ok \in SetupOutcomes(env) :
          /\ Goto(w, IF ok THEN "topic" ELSE "fatal")
          /\ IF ok
             THEN LET st0 == [flag |-> idle_thread_running, loops |-> idle_loops]
                      st1 == StartIdleAnimation(st0, "agent1")
                      st2 == StartIdleAnimation(st1, "agent2")
                  IN  /\ idle_thread_running' = Track(st2.flag, idle_thread_running)
                      /\ idle_loops' = Track(st2.loops, idle_loops)
                      /\ \E f \in FileOutcomes(env) :
                            transcript_file' =
                                Track(InitTranscript(f), transcript_file)
             ELSE UNCHANGED <<idle_thread_running, idle_loops, transcript_file>>
    /\ UNCHANGED <<smvars, lock, turn, successful_turns, failed_turns,
                   attempt, text, spoke, topic_switches, cunch,
                   transcript_queue, pushed, conversation_history>>

\* line 187: self.current_topic = random.choice(TOPICS)
WorkerPickTopic(w) ==
    /\ wpc[w] = "topic"
    /\ \E t \in TOPICS : current_topic' = t
    /\ Goto(w, "opening")
    /\ UNCHANGED <<is_running, current_turn, max_turns, errors, stop_flag,
                   lock, turn, successful_turns, failed_turns,
                   attempt, text, spoke, topic_switches, cunch, wside>>

\* lines 196-203: text_to_speech for the opening line returns True or
\* False, or raises once its retries are exhausted (outside the per-turn
\* handler, so the outer handler takes it).
WorkerOpening(w) ==
    /\ wpc[w] = "opening"
    /\ \E r \in TtsOutcomes(env) :
          Goto(w, CASE r = "ok" -> "opening_out"
                    [] r = "false" -> "check"
                    [] r = "raise" -> "fatal")
    /\ UNCHANGED <<smvars, lock, turn, successful_turns, failed_turns,
                   attempt, text, spoke, topic_switches, cunch, wside>>

\* lines 197-200: the opening line is spoken by "agent1"
OpeningAgent == "agent1"

\* lines 198-201: overlay, transcript, playback and pause of the opening
WorkerOpeningEffects(w) ==
    /\ wpc[w] = "opening_out"
    /\ spoke' = [spoke EXCEPT ![w] = OpeningAgent]
    /\ LogMessage(Message(OpeningAgent, current_topic))
    /\ Goto(w, "check")
    /\ UNCHANGED <<smvars, lock, turn, successful_turns, failed_turns,
                   attempt, text, topic_switches, cunch,
                   idle_thread_running, conversation_history, idle_loops>>

\* Variant: the loop never looks at the stop flag.
CancelObserved_Never == FALSE

\* lines 206-210: `for turn in range(self.max_turns)` and, at the top of
\* the body, `if self.stop_flag.is_set(): break`
CancelObserved == stop_flag

\* Variant: the loop stops one turn short, range(self.max_turns - 1).
LoopExhausted_OneShort(t) == t >= max_turns - 1

\* line 206: `for turn in range(self.max_turns)` has no index left
LoopExhausted(t) == t >= max_turns

WorkerCheck(w) ==
    /\ wpc[w] = "check"
    /\ Goto(w, IF LoopExhausted(turn[w]) \/ CancelObserved
               THEN "teardown" ELSE "begin")
    /\ UNCHANGED <<smvars, lock, turn, successful_turns, failed_turns,
                   attempt, text, spoke, topic_switches, cunch, wside>>

\* Variant: the turn counter counts the turns that remain.
TurnNumber_Remaining(t) == max_turns - t

\* line 213: self.current_turn = turn + 1
TurnNumber(t) == t + 1

\* Variant: the first agent speaks on even turns.
AgentKey_Swapped(t) == IF t % 2 = 0 THEN "agent1" ELSE "agent2"

\* line 216: agent_key = "agent2" if turn % 2 == 0 else "agent1"
AgentKey(t) == IF t % 2 = 0 THEN "agent2" ELSE "agent1"

WorkerBeginTurn(w) ==
    /\ wpc[w] = "begin"
    /\ current_turn' = TurnNumber(turn[w])
    /\ Goto(w, "generate")
    /\ UNCHANGED <<is_running, current_topic, max_turns, errors, stop_flag,
                   lock, turn, successful_turns, failed_turns,
                   attempt, text, spoke, topic_switches, cunch, wside>>

\* Variant: a failed turn is counted but leaves no entry in errors.
TurnFailed_NoRecord(w, what) ==
    /\ failed_turns' = [failed_turns EXCEPT ![w] = @ + 1]
    /\ attempt' = [attempt EXCEPT ![w] = 0]
    /\ text' = [text EXCEPT ![w] = ""]
    /\ NextTurn(w)
    /\ Goto(w, "check")
    /\ UNCHANGED <<is_running, current_turn, current_topic, max_turns, errors,
                   stop_flag, lock, successful_turns, spoke, topic_switches,
                   cunch, wside>>

\* Variant: a failed turn is counted twice.
TurnFailed_CountsTwice(w, what) ==
    /\ errors' = Append(errors, TurnError(turn[w], what))
    /\ failed_turns' = [failed_turns EXCEPT ![w] = @ + 2]
    /\ attempt' = [attempt EXCEPT ![w] = 0]
    /\ text' = [text EXCEPT ![w] = ""]
    /\ NextTurn(w)
    /\ Goto(w, "check")
    /\ UNCHANGED <<is_running, current_turn, current_topic, max_turns,
                   stop_flag, lock, successful_turns, spoke, topic_switches,
                   cunch, wside>>

\* Variant: there is no per-turn handler, a failing turn ends the loop.
TurnFailed_Aborts(w, what) ==
    /\ errors' = Append(errors, TurnError(turn[w], what))
    /\ failed_turns' = [failed_turns EXCEPT ![w] = @ + 1]
    /\ attempt' = [attempt EXCEPT ![w] = 0]
    /\ text' = [text EXCEPT ![w] = ""]
    /\ Goto(w, "teardown")
    /\ UNCHANGED <<is_running, current_turn, current_topic, max_turns,
                   stop_flag, lock, turn, successful_turns, spoke,
                   topic_switches, cunch, wside>>

\* lines 228-231 and 256-259: the failure of the turn is counted and
\* recorded, and the loop goes on with the next turn
TurnFailed(w, what) ==
    /\ errors' = Append(errors, TurnError(turn[w], what))
    /\ failed_turns' = [failed_turns EXCEPT ![w] = @ + 1]
    /\ attempt' = [attempt EXCEPT ![w] = 0]
    /\ text' = [text EXCEPT ![w] = ""]
    /\ NextTurn(w)
    /\ Goto(w, "check")
    /\ UNCHANGED <<is_running, current_turn, current_topic, max_turns,
                   stop_flag, lock, successful_turns, spoke, topic_switches,
                   cunch, wside>>

\* generate_response returned t, the reply or the fallback, after adding
\* it to the history (dialogue.py lines 61, 72, 79): line 222 binds it and
\* the turn goes on with the synthesis
Generated(w, t) ==
    /\ text' = [text EXCEPT ![w] = t]
    /\ attempt' = [attempt EXCEPT ![w] = 0]
    /\ conversation_history' =
           Track(Append(conversation_history, t), conversation_history)
    /\ Goto(w, "tts")
    /\ UNCHANGED <<smvars, lock, turn, successful_turns, failed_turns,
                   spoke, topic_switches, cunch, transcript_queue, pushed,
                   idle_thread_running, transcript_file, idle_loops>>

\* retry.py lines 51-69: the wrapper sleeps and calls the body again
Retry(w) ==
    /\ attempt' = [attempt EXCEPT ![w] = @ + 1]
    /\ UNCHANGED <<smvars, lock, wpc, turn, successful_turns, failed_turns,
                   text, spoke, topic_switches, cunch, wside>>

\* line 222: one attempt of generate_response under retry_with_backoff.
\* A value the body returns is the result; an exception it raises is
\* retried, and re-raised into the per-turn handler after the last retry.
WorkerGenerate(w) ==
    /\ wpc[w] = "generate"
    /\ \E o \in GroqOutcomes(env) :
          IF GenerateAttempt(o) # "raise"
          THEN Generated(w, GenerateAttempt(o))
          ELSE IF attempt[w] = GEN_MAX_RETRIES
               THEN TurnFailed(w, "exception")
               ELSE Retry(w)

\* Variant: `continue` is missing, a turn whose synthesis returned False
\* is recorded as failed and presented all the same.
WorkerSynthesize_NoSkip(w) ==
    /\ wpc[w] = "tts"
    /\ errors' = Append(errors, TurnError(turn[w], "TTS failed"))
    /\ failed_turns' = [failed_turns EXCEPT ![w] = @ + 1]
    /\ Goto(w, "overlay")
    /\ UNCHANGED <<is_running, current_turn, current_topic, max_turns,
                   stop_flag, lock, turn, successful_turns, attempt, text,
                   spoke, topic_switches, cunch, wside>>

\* lines 225-231: text_to_speech returns True, returns False (the turn is
\* skipped) or raises
WorkerSynthesize(w) ==
    /\ wpc[w] = "tts"
    /\ \E r \in TtsOutcomes(env) :
          CASE r = "ok" ->
                  /\ Goto(w, "overlay")
                  /\ UNCHANGED <<smvars, lock, turn, successful_turns,
                                 failed_turns, attempt, text, spoke,
                                 topic_switches, cunch, wside>>
            [] r = "false" -> TurnFailed(w, "TTS failed")
            [] r = "raise" -> TurnFailed(w, "exception")

\* line 234: update_overlay
WorkerOverlay(w) ==
    /\ wpc[w] = "overlay"
    /\ Goto(w, "transcript")
    /\ UNCHANGED <<smvars, lock, turn, successful_turns, failed_turns,
                   attempt, text, spoke, topic_switches, cunch, wside>>

\* Variant: the line is written to the file and nothing is broadcast.
WorkerTranscript_FileOnly(w) ==
    /\ wpc[w] = "transcript"
    /\ spoke' = [spoke EXCEPT ![w] = AgentKey(turn[w])]
    /\ transcript_file' =
           Track(Append(transcript_file,
                        FileLine(Message(AgentKey(turn[w]), ""))),
                 transcript_file)
    /\ Goto(w, "play")
    /\ UNCHANGED <<smvars, lock, turn, successful_turns, failed_turns,
                   attempt, text, topic_switches, cunch, transcript_queue,
                   pushed, idle_thread_running, conversation_history,
                   idle_loops>>

\* line 235: log_message(agent["name"], text)
WorkerTranscript(w) ==
    /\ wpc[w] = "transcript"
    /\ spoke' = [spoke EXCEPT ![w] = AgentKey(turn[w])]
    /\ LogMessage(Message(AgentKey(turn[w]), ""))
    /\ Goto(w, "play")
    /\ UNCHANGED <<smvars, lock, turn, successful_turns, failed_turns,
                   attempt, text, topic_switches, cunch,
                   idle_thread_running, conversation_history, idle_loops>>

\* Variant: playback is skipped, and the loop left, once stop was requested.
WorkerPlay_Cancellable(w) ==
    /\ wpc[w] = "play"
    /\ text' = [text EXCEPT ![w] = ""]
    /\ IF stop_flag
       THEN Goto(w, "teardown") /\ UNCHANGED successful_turns
       ELSE /\ successful_turns' = [successful_turns EXCEPT ![w] = @ + 1]
            /\ Goto(w, "pause")
    /\ UNCHANGED <<smvars, lock, turn, failed_turns, attempt, spoke,
                   topic_switches, cunch, wside>>

\* lines 239-241: play_audio, successful_turns += 1; the text is not used
\* again
WorkerPlay(w) ==
    /\ wpc[w] = "play"
    /\ text' = [text EXCEPT ![w] = ""]
    /\ successful_turns' = [successful_turns EXCEPT ![w] = @ + 1]
    /\ Goto(w, "pause")
    /\ UNCHANGED <<smvars, lock, turn, failed_turns, attempt, spoke,
                   topic_switches, cunch, wside>>

\* Variant: the new topic is drawn from all the topics.
OtherTopics_Any(t) == TOPICS

\* line 249: [t for t in TOPICS if t != self.current_topic]
OtherTopics(t) == TOPICS \ {t}

\* Variant: the history is kept across the switch.
ResetHistory_Keep == conversation_history

\* dialogue.py lines 83-86, reset_history: conversation_history.clear()
ResetHistory == <<>>

\* lines 244-254: pause, then, when the topic switch is due, the new
\* topic, reset_history and the topic marker in the transcript
WorkerPause(w) ==
    /\ wpc[w] = "pause"
    /\ IF TopicSwitchDue(turn[w], max_turns)
       THEN /\ \E t \in OtherTopics(current_topic) :
                  /\ current_topic' = t
                  /\ LogMessage(Message("", t))
            /\ topic_switches' = [topic_switches EXCEPT ![w] = @ \cup {turn[w]}]
            /\ conversation_history' = Track(ResetHistory, conversation_history)
       ELSE UNCHANGED <<current_topic, topic_switches, transcript_queue,
                        pushed, conversation_history, transcript_file>>
    /\ NextTurn(w)
    /\ Goto(w, "check")
    /\ UNCHANGED <<is_running, current_turn, max_turns, errors, stop_flag,
                   lock, successful_turns, failed_turns, attempt, text,
                   spoke, cunch, idle_thread_running, idle_loops>>

\* Variant: the worker takes the lock before the teardown and keeps it.
WorkerTeardown_Locked(w) ==
    /\ wpc[w] = "teardown"
    /\ lock = "free"
    /\ lock' = "worker"
    /\ idle_thread_running' = Track(FALSE, idle_thread_running)
    /\ \E ok \in SetupOutcomes(env) : Goto(w, IF ok THEN "cleanup" ELSE "fatal")
    /\ UNCHANGED <<smvars, turn, successful_turns, failed_turns,
                   attempt, text, spoke, topic_switches, cunch,
                   transcript_queue, pushed, conversation_history,
                   transcript_file, idle_loops>>

\* lines 262-274: stop_idle_animation (core/avatar.py line 152 clears the
\* flag), then the summary, which returns or raises
WorkerTeardown(w) ==
    /\ wpc[w] = "teardown"
    /\ idle_thread_running' = Track(FALSE, idle_thread_running)
    /\ \E ok \in SetupOutcomes(env) : Goto(w, IF ok THEN "cleanup" ELSE "fatal")
    /\ UNCHANGED <<smvars, lock, turn, successful_turns, failed_turns,
                   attempt, text, spoke, topic_switches, cunch,
                   transcript_queue, pushed, conversation_history,
                   transcript_file, idle_loops>>

\* Variant: the cleanup is not in a finally block, so the fatal path
\* ends the thread without it.
WorkerFatal_NoCleanup(w) ==
    /\ wpc[w] = "fatal"
    /\ errors' = Append(errors, FatalError)
    /\ Goto(w, "ended")
    /\ UNCHANGED <<is_running, current_turn, current_topic, max_turns,
                   stop_flag, lock, turn, successful_turns, failed_turns,
                   attempt, text, spoke, topic_switches, cunch, wside>>

\* Variant: the outer handler only logs, nothing is appended to errors.
WorkerFatal_Silent(w) ==
    /\ wpc[w] = "fatal"
    /\ Goto(w, "cleanup")
    /\ UNCHANGED <<smvars, lock, turn, successful_turns, failed_turns,
                   attempt, text, spoke, topic_switches, cunch, wside>>

\* lines 276-278: the outer handler records the fatal error; the finally
\* block follows
WorkerFatal(w) ==
    /\ wpc[w] = "fatal"
    /\ errors' = Append(errors, FatalError)
    /\ Goto(w, "cleanup")
    /\ UNCHANGED <<is_running, current_turn, current_topic, max_turns,
                   stop_flag, lock, turn, successful_turns, failed_turns,
                   attempt, text, spoke, topic_switches, cunch, wside>>

\* line 280: finally: `with self._lock`
WorkerCleanupLock(w) ==
    /\ wpc[w] = "cleanup"
    /\ lock = "free"
    /\ lock' = "worker"
    /\ Goto(w, "cl_running")
    /\ UNCHANGED <<smvars, turn, successful_turns, failed_turns,
                   attempt, text, spoke, topic_switches, cunch, wside>>

\* line 281: self.is_running = False
WorkerCleanupRunning(w) ==
    /\ wpc[w] = "cl_running"
    /\ is_running' = FALSE
    /\ Goto(w, "cl_turn")
    /\ UNCHANGED <<current_turn, current_topic, max_turns, errors, stop_flag,
                   lock, turn, successful_turns, failed_turns,
                   attempt, text, spoke, topic_switches, cunch, wside>>

\* lines 282-283: self.current_turn = 0, then the lock is released and
\* the thread ends (its locals are gone)
WorkerCleanupTurn(w) ==
    /\ wpc[w] = "cl_turn"
    /\ current_turn' = 0
    /\ lock' = "free"
    /\ Goto(w, "ended")
    /\ turn' = [turn EXCEPT ![w] = 0]
    /\ successful_turns' = [successful_turns EXCEPT ![w] = 0]
    /\ failed_turns' = [failed_turns EXCEPT ![w] = 0]
    /\ spoke' = [spoke EXCEPT ![w] = ""]
    /\ topic_switches' = [topic_switches EXCEPT ![w] = {}]
    /\ UNCHANGED <<is_running, current_topic, max_turns, errors, stop_flag,
                   attempt, text, cunch, wside>>

\* ------------------------------------------------------ idle animation
\* core/avatar.py lines 135-143, idle_loop of a thread started for agent
\* a: `while _idle_thread_running` finds the flag cleared and the thread
\* ends.  While the flag is set the loop only re-asserts the idle image
\* and sleeps, which changes nothing here.
IdleLoopExit(a) ==
    /\ idle_loops[a] > 0
    /\ ~idle_thread_running
    /\ idle_loops' = [idle_loops EXCEPT ![a] = @ - 1]
    /\ UNCHANGED <<smvars, stream_thread, lock, wpc, turn, successful_turns,
                   failed_turns, attempt, text, spoke, topic_switches, cunch,
                   transcript_queue, pushed, idle_thread_running,
                   conversation_history, transcript_file>>

IdleLoopNext == \E a \in Agents : IdleLoopExit(a)

\* ----------------------------------------------------- retry_with_backoff
\* utils/retry.py, wrapper (lines 48-73): one call of a function decorated
\* with max_retries = r_max, base_delay = r_base, exceptions =
\* r_exceptions.  r_calls lists what each invocation of the function did,
\* r_slept the delays the wrapper slept.
nonretry == <<smvars, stream_thread, lock, wpc, turn, successful_turns,
             failed_turns, attempt, text, spoke, topic_switches, env,
             tracked, budget, cvars, wside, ovars, bvars>>

\* What invocation number k of the function can do: return a value or
\* raise an exception of some class.
Outcomes(k) ==
    {[kind |-> "value", class |-> "", id |-> k]}
        \cup {[kind |-> "error", class |-> c, id |-> k] : c \in ErrorClasses}

\* Variant: every exception is caught, whatever its class.
Retryable_All(o, ex) == TRUE

\* line 54: `except exceptions as e`
Retryable(o, ex) == o.class \in ex

\* Variant: the test is made against max_retries + 1.
LastAttempt_Late(k, n) == k = n + 1

\* line 57: `if attempt == max_retries`
LastAttempt(k, n) == k = n

\* Variant: the delay grows linearly.
Delay_Linear(d, k) == d * (k + 1)

\* line 64: delay = base_delay * (exponential_base ** attempt)
Delay(d, k) == d * EXPONENTIAL_BASE ^ k

\* lines 51-61: `return func(*args, **kwargs)` inside the try; the value
\* is returned, an exception outside `exceptions` propagates, one inside
\* is re-raised on the last attempt and slept on otherwise
RetryCall ==
    /\ r_pc = "call"
    /\ \E o \in Outcomes(Len(r_calls)) :
          /\ r_calls' = Append(r_calls, o)
          /\ IF o.kind = "value"
             THEN r_pc' = "done" /\ r_result' = [kind |-> "returned", what |-> o]
             ELSE IF ~Retryable(o, r_exceptions) \/ LastAttempt(r_attempt, r_max)
                  THEN r_pc' = "done" /\ r_result' = [kind |-> "raised", what |-> o]
                  ELSE r_pc' = "sleep" /\ UNCHANGED r_result
    /\ UNCHANGED <<nonretry, r_max, r_base, r_exceptions, r_attempt, r_slept>>

\* lines 63-69: time.sleep(delay), then the next iteration of the loop
RetrySleep ==
    /\ r_pc = "sleep"
    /\ r_slept' = Append(r_slept, Delay(r_base, r_attempt))
    /\ r_attempt' = r_attempt + 1
    /\ r_pc' = "call"
    /\ UNCHANGED <<nonretry, r_max, r_base, r_exceptions, r_calls, r_result>>

\* ------------------------------------------------- websocket connections
\* backend/websockets/transcript.py: each connection o runs
\* transcript_websocket on the event loop; its sender task polls the
\* queue of the StreamManager.
sysvars == <<smvars, stream_thread, lock, wpc, turn, successful_turns,
            failed_turns, attempt, text, spoke, topic_switches, env, tracked,
            budget, cvars, pushed, idle_thread_running, conversation_history,
            transcript_file, idle_loops, rvars, bvars>>

\* lines 42-54 and 132-133: the connection is accepted, the welcome
\* message sent and the sender and receiver tasks created.  Connections
\* are interchangeable: o2 stands for one opened while o1 is open.
ObserverAttach(o) ==
    /\ tracked
    /\ opc[o] = "closed"
    /\ o = "o2" => opc["o1"] # "closed"
    /\ opc' = [opc EXCEPT ![o] = "poll"]
    /\ early' = [early EXCEPT ![o] = (pushed = <<>>)]
    /\ UNCHANGED <<sysvars, transcript_queue, popped, msg, received>>

\* Variant: the sender reads the head of the queue and leaves it there.
ObserverPoll_Peek(o) ==
    /\ opc[o] = "poll"
    /\ transcript_queue # <<>>
    /\ msg' = [msg EXCEPT ![o] = Head(transcript_queue)]
    /\ popped' = Append(popped, [message |-> Head(transcript_queue), by |-> o])
    /\ opc' = [opc EXCEPT ![o] = "send"]
    /\ UNCHANGED <<sysvars, transcript_queue, received, early>>

\* send_transcript_messages lines 65-69: `if not ...empty()` and
\* get_nowait(), with no await in between; an empty queue sends the task
\* to sleep (line 77)
ObserverPoll(o) ==
    /\ opc[o] = "poll"
    /\ transcript_queue # <<>>
    /\ msg' = [msg EXCEPT ![o] = Head(transcript_queue)]
    /\ transcript_queue' = Tail(transcript_queue)
    /\ popped' = Append(popped, [message |-> Head(transcript_queue), by |-> o])
    /\ opc' = [opc EXCEPT ![o] = "send"]
    /\ UNCHANGED <<sysvars, received, early>>

\* The connection is closed: what it had is gone.
Closed(o) ==
    /\ opc' = [opc EXCEPT ![o] = "closed"]
    /\ msg' = [msg EXCEPT ![o] = NoMessage]
    /\ received' = [received EXCEPT ![o] = <<>>]
    /\ early' = [early EXCEPT ![o] = FALSE]

\* lines 70-77: `await websocket.send_json(message)` delivers the message
\* and the task sleeps before the next poll, or raises, which ends the
\* task (lines 72-74) and with it the connection (lines 137-154)
ObserverSend(o) ==
    /\ opc[o] = "send"
    /\ \E ok \in BOOLEAN :
          IF ok
          THEN /\ received' = [received EXCEPT ![o] = Append(@, msg[o])]
               /\ msg' = [msg EXCEPT ![o] = NoMessage]
               /\ opc' = [opc EXCEPT ![o] = "poll"]
               /\ UNCHANGED early
          ELSE Closed(o)
    /\ UNCHANGED <<sysvars, transcript_queue, popped>>

\* lines 122-124 and 137-154: the client disconnects; the receiver task
\* ends and the sender task is cancelled where it waits
ObserverDisconnect(o) ==
    /\ opc[o] \in {"poll", "send"}
    /\ Closed(o)
    /\ UNCHANGED <<sysvars, transcript_queue, popped>>

ObserverNext ==
    \E o \in Observers :
        \/ ObserverAttach(o)
        \/ ObserverPoll(o)
        \/ ObserverSend(o)
        \/ ObserverDisconnect(o)

\* ------------------------------------------------------------------- Next
CallerNext ==
    \E c \in Callers :
        \/ StartCall(c)
        \/ \E m \in Lengths(env) : StartEnter(c, m)
        \/ StopCall(c)
        \/ StatusCall(c)
        \/ ReadRunning(c)
        \/ ReadTurn(c)
        \/ ReadTopic(c)
        \/ ReadMax(c)
        \/ ReadErrors(c)
        \/ Return(c)

WorkerNext ==
    \E w \in Workers :
        \/ WorkerSetup(w)
        \/ WorkerPickTopic(w)
        \/ WorkerOpening(w)
        \/ WorkerOpeningEffects(w)
        \/ WorkerCheck(w)
        \/ WorkerBeginTurn(w)
        \/ WorkerGenerate(w)
        \/ WorkerSynthesize(w)
        \/ WorkerOverlay(w)
        \/ WorkerTranscript(w)
        \/ WorkerPlay(w)
        \/ WorkerPause(w)
        \/ WorkerTeardown(w)
        \/ WorkerFatal(w)
        \/ WorkerCleanupLock(w)
        \/ WorkerCleanupRunning(w)
        \/ WorkerCleanupTurn(w)

Next == CallerNext \/ WorkerNext

Spec == Init /\ [][Next]_vars

\* A call that has been issued runs to its return.
CallerFinish(c) ==
    \/ \E m \in Lengths(env) : StartEnter(c, m)
    \/ ReadRunning(c)
    \/ ReadTurn(c)
    \/ ReadTopic(c)
    \/ ReadMax(c)
    \/ ReadErrors(c)
    \/ Return(c)

\* The control surface restricted to the calls that change the state,
\* start and stop (start still builds its status with get_status), issued
\* one after the other by a single client.
Operator == "c1"

ControlNext ==
    \/ StartCall(Operator)
    \/ StopCall(Operator)
    \/ CallerFinish(Operator)

LiveNext == ControlNext \/ WorkerNext

\* Runs of start, stop and the worker in which the threads are scheduled
\* and every external call of the worker returns.
FairSpec ==
    /\ Init /\ [][LiveNext]_vars
    /\ WF_vars(WorkerNext)
    /\ WF_vars(CallerFinish(Operator))

\* Long runs: one client starts one stream, of a length in RunLengths, and
\* asks for the status, while the external services behave in one fixed
\* way.  The module state of the collaborators is followed; no websocket
\* connection is opened.
RunInit == \E e \in Envs \ {"any"} : InitAll(e, TRUE)

RunNext ==
    \/ stream_thread = 0 /\ StartCall(Operator)
    \/ StatusCall(Operator)
    \/ CallerFinish(Operator)
    \/ WorkerNext

RunSpec ==
    /\ RunInit /\ [][RunNext]_vars
    /\ WF_vars(WorkerNext)
    /\ WF_vars(CallerFinish(Operator))

\* A decorated function is called: the decorator's arguments are drawn,
\* the wrapper is at its first attempt.
RetryInit ==
    /\ InitSystem("ok", FALSE)
    /\ r_pc = "call"
    /\ r_max \in 0..MaxRetries
    /\ r_base \in BaseDelays
    /\ r_exceptions \in RetryableSets
    /\ r_attempt = 0
    /\ r_calls = <<>>
    /\ r_slept = <<>>
    /\ r_result = [kind |-> "none"]

RetryNext == RetryCall \/ RetrySleep

RetrySpec == RetryInit /\ [][RetryNext]_vars

\* The stream with its transcript queue and its websocket connections:
\* one client starts a short stream, while connections come and go; every
\* call of the worker succeeds ("ok") or the synthesis raises ("tts_raise").
ObservedInit == \E e \in {"ok", "tts_raise"} : InitAll(e, TRUE)

ObservedNext ==
    \/ stream_thread = 0 /\ StartCall(Operator)
    \/ \E m \in 1..MaxTurnsArg : StartEnter(Operator, m)
    \/ ReadRunning(Operator)
    \/ ReadTurn(Operator)
    \/ ReadTopic(Operator)
    \/ ReadMax(Operator)
    \/ ReadErrors(Operator)
    \/ Return(Operator)
    \/ WorkerNext
    \/ ObserverNext

ObservedSpec == ObservedInit /\ [][ObservedNext]_vars

\* ------------------------------------------- construction of the singleton
\* StreamManager() in thread b: __new__ (lines 37-43), then __init__
\* (lines 45-64) on the object __new__ returned, line by line.  The
\* StreamManager fields keep the values the threads give them.
bframe == <<current_turn, current_topic, max_turns, errors, stop_flag,
           wpc, turn, successful_turns, failed_turns, attempt, text, spoke,
           topic_switches, env, tracked, budget, cvars, popped, opc, msg,
           received, early, idle_thread_running, conversation_history,
           transcript_file, idle_loops, rvars>>

BGoto(b, pc) == bpc' = [bpc EXCEPT ![b] = pc]

\* line 38: `if cls._instance is None`, read without the lock; an
\* instance that exists is returned (line 43) and __init__ is called on it
NewTest(b) ==
    /\ bpc[b] = "idle"
    /\ BGoto(b, IF instance = 0 THEN "new_lock" ELSE "init_test")
    /\ UNCHANGED <<bframe, is_running, stream_thread, lock, transcript_queue,
                   pushed, instance, initialized, init_runs, queues>>

\* line 39: `with cls._lock`
NewLock(b) ==
    /\ bpc[b] = "new_lock"
    /\ lock = "free"
    /\ lock' = b
    /\ BGoto(b, "new_retest")
    /\ UNCHANGED <<bframe, is_running, stream_thread, transcript_queue,
                   pushed, instance, initialized, init_runs, queues>>

\* line 40: the second test, under the lock; when the instance exists the
\* lock is released and the instance returned
NewRetest(b) ==
    /\ bpc[b] = "new_retest"
    /\ IF instance = 0
       THEN BGoto(b, "new_create") /\ UNCHANGED lock
       ELSE BGoto(b, "init_test") /\ lock' = "free"
    /\ UNCHANGED <<bframe, is_running, stream_thread, transcript_queue,
                   pushed, instance, initialized, init_runs, queues>>

\* line 41: cls._instance = super().__new__(cls), an object that has no
\* attribute yet
NewCreate(b) ==
    /\ bpc[b] = "new_create"
    /\ instance' = instance + 1
    /\ initialized' = "unset"
    /\ BGoto(b, "new_flag")
    /\ UNCHANGED <<bframe, is_running, stream_thread, lock, transcript_queue,
                   pushed, init_runs, queues>>

\* line 42: cls._instance._initialized = False; the lock is released and
\* the instance returned (line 43)
NewFlag(b) ==
    /\ bpc[b] = "new_flag"
    /\ initialized' = "false"
    /\ lock' = "free"
    /\ BGoto(b, "init_test")
    /\ UNCHANGED <<bframe, is_running, stream_thread, transcript_queue,
                   pushed, instance, init_runs, queues>>

\* lines 46-47: `if self._initialized: return`, read without the lock; the
\* attribute may not exist yet (AttributeError)
InitTest(b) ==
    /\ bpc[b] = "init_test"
    /\ BGoto(b, CASE initialized = "unset" -> "raised"
                  [] initialized = "true" -> "done"
                  [] OTHER -> "init_set")
    /\ UNCHANGED <<bframe, is_running, stream_thread, lock, transcript_queue,
                   pushed, instance, initialized, init_runs, queues>>

\* line 49: self._initialized = True
InitSet(b) ==
    /\ bpc[b] = "init_set"
    /\ initialized' = "true"
    /\ BGoto(b, "init_fields")
    /\ UNCHANGED <<bframe, is_running, stream_thread, lock, transcript_queue,
                   pushed, instance, init_runs, queues>>

\* lines 50-56: is_running, current_turn, current_topic, max_turns, errors,
\* stream_thread and stop_flag get their initial values
InitFields(b) ==
    /\ bpc[b] = "init_fields"
    /\ is_running' = FALSE
    /\ current_turn' = 0
    /\ current_topic' = ""
    /\ max_turns' = MAX_TURNS
    /\ errors' = <<>>
    /\ stream_thread' = 0
    /\ stop_flag' = FALSE
    /\ init_runs' = init_runs + 1
    /\ BGoto(b, "init_queue")
    /\ UNCHANGED <<wpc, turn, successful_turns, failed_turns, attempt, text,
                   spoke, topic_switches, env, tracked, budget, cvars, popped,
                   opc, msg, received, early, idle_thread_running,
                   conversation_history, transcript_file, idle_loops, rvars,
                   lock, transcript_queue, pushed, instance, initialized,
                   queues>>

\* lines 59-64: self.transcript_queue = Queue(), a new and empty queue,
\* and set_broadcast_callback; the construction returns
InitQueue(b) ==
    /\ bpc[b] = "init_queue"
    /\ transcript_queue' = <<>>
    /\ queues' = queues + 1
    /\ BGoto(b, "done")
    /\ UNCHANGED <<bframe, is_running, stream_thread, lock, pushed, instance,
                   initialized, init_runs>>

\* The thread uses the instance it was given: it hands a message to
\* broadcast_transcript (lines 141-159), which puts it on
\* self.transcript_queue; the attribute may not exist yet
\* (AttributeError).
BuilderUse(b) ==
    /\ bpc[b] = "done"
    /\ IF queues = 0
       THEN BGoto(b, "raised") /\ UNCHANGED <<transcript_queue, pushed>>
       ELSE BGoto(b, "used") /\ Push(Message(b, ""))
    /\ UNCHANGED <<bframe, is_running, stream_thread, lock, instance,
                   initialized, init_runs, queues>>

BuilderNext ==
    \E b \in Builders :
        \/ NewTest(b)
        \/ NewLock(b)
        \/ NewRetest(b)
        \/ NewCreate(b)
        \/ NewFlag(b)
        \/ InitTest(b)
        \/ InitSet(b)
        \/ InitFields(b)
        \/ InitQueue(b)
        \/ BuilderUse(b)

\* The process before any StreamManager() call; the threads in Builders
\* each construct the StreamManager once and then use it.
ConstructInit == InitState("ok", TRUE, MaxCalls) /\ RetryIdle /\ NotConstructed

ConstructSpec == ConstructInit /\ [][BuilderNext]_vars

\* -------------------------------------------------- sessions of several runs
\* One client starts and stops short streams one after the other, with
\* one call more than in the other specifications (start, stop, start)
\* and no start once every thread of Workers has been created, while the
\* idle loops run.  The module state of the collaborators is followed; no
\* websocket connection is opened.
SessionInit ==
    \E e \in SessionEnvs :
        InitState(e, TRUE, MaxCalls + 1) /\ Constructed /\ RetryIdle

SessionNext ==
    \/ stream_thread < MaxCalls /\ StartCall(Operator)
    \/ \E m \in 1..MaxTurnsArg : StartEnter(Operator, m)
    \/ StopCall(Operator)
    \/ ReadRunning(Operator) \/ ReadTurn(Operator) \/ ReadTopic(Operator)
    \/ ReadMax(Operator) \/ ReadErrors(Operator) \/ Return(Operator)
    \/ WorkerNext
    \/ IdleLoopNext

SessionSpec == SessionInit /\ [][SessionNext]_vars

\* Streams started one after the other by one client, with one websocket
\* connection that comes and goes: what the queue holds when nobody
\* listens, and who gets it.
ReplayInit == \E e \in {"ok", "tts_raise"} : InitAll(e, TRUE)

\* The one websocket connection.
Viewer == "o1"
\* max_turns values of the streams.
ReplayLengths == {1, 2}

ReplayNext ==
    \/ StartCall(Operator)
    \/ \E m \in ReplayLengths : StartEnter(Operator, m)
    \/ ReadRunning(Operator) \/ ReadTurn(Operator) \/ ReadTopic(Operator)
    \/ ReadMax(Operator) \/ ReadErrors(Operator) \/ Return(Operator)
    \/ WorkerNext
    \/ ObserverAttach(Viewer) \/ ObserverPoll(Viewer)
    \/ ObserverSend(Viewer) \/ ObserverDisconnect(Viewer)

ReplaySpec == ReplayInit /\ [][ReplayNext]_vars

\* ================================================================ claims
\* A worker execution is in flight from the start that created it until
\* its cleanup has set is_running to False.
InFlight(w) == wpc[w] \notin {"unborn", "cl_turn", "ended"}
WorkersInFlight == {w \in Workers : InFlight(w)}

RejectedStart == [op |-> "start", success |-> FALSE]
AcceptedStart == [op |-> "start", success |-> TRUE]

\* C1: in every reachable state at most one worker execution is in flight,
\* and whenever is_running is true exactly one is.
C1_SingleWorker ==
    /\ Cardinality(WorkersInFlight) <= 1
    /\ is_running => Cardinality(WorkersInFlight) = 1

\* A second start was rejected while the worker of the first is mid-turn.
C1_Witness ==
    /\ is_running
    /\ \E w \in Workers : wpc[w] = "generate"
    /\ \E c \in Callers : result[c] = RejectedStart /\ cpc[c] = "idle"

\* Both callers have returned from start calls they issued together on a
\* system that was not running.
RaceOver ==
    /\ raced
    /\ \A c \in Callers : cpc[c] = "idle" /\ result[c].op = "start"

\* The step in which caller c takes the lock inside start_stream.
EntersStart(c) == cpc[c] = "start_wait" /\ cpc'[c] # "start_wait"

\* C2 as stated: of two start calls issued concurrently on a system that is
\* not running, exactly one is accepted and exactly one is rejected.
C2_ExactlyOneAccepted ==
    RaceOver =>
        /\ Cardinality({c \in Callers : result[c] = AcceptedStart}) = 1
        /\ Cardinality({c \in Callers : result[c] = RejectedStart}) = 1

\* C2 amended: of two start calls issued concurrently on a system that is
\* not running, at least one is accepted; the call that takes the lock is
\* rejected exactly when a worker execution is in flight, in which case it
\* leaves current_turn alone and creates no worker, and otherwise it is
\* accepted, sets current_turn to 0 and creates exactly one worker.  Both
\* are accepted only when the first one's worker has already finished.
C2_RaceOutcome ==
    /\ [](RaceOver => \E c \in Callers : result[c] = AcceptedStart)
    /\ [][\A c \in Callers : (raced /\ EntersStart(c)) =>
            IF WorkersInFlight # {}
            THEN /\ result'[c] = RejectedStart
                 /\ current_turn' = current_turn
                 /\ stream_thread' = stream_thread
                 /\ WorkersInFlight' = WorkersInFlight
            ELSE /\ result'[c] = AcceptedStart
                 /\ current_turn' = 0
                 /\ stream_thread' = stream_thread + 1
                 /\ WorkersInFlight' = {stream_thread + 1}]_vars

\* The race ended with one call accepted and the other rejected.
C2_Witness ==
    /\ RaceOver
    /\ \E c, d \in Callers : result[c] = AcceptedStart /\ result[d] = RejectedStart

\* C3: a start that finds is_running true reports failure (HTTP 409),
\* creates no worker, and no step of that call changes is_running,
\* current_turn, current_topic, max_turns, errors or stop_flag; the status
\* it returns shows the stream running with the max_turns in force.
C3_RejectedStartFrame ==
    /\ [][\A c \in Callers :
            /\ (EntersStart(c) /\ is_running) =>
                   /\ result'[c] = RejectedStart
                   /\ Http(result'[c]) = HTTP_CONFLICT
            /\ (cpc'[c] # cpc[c] /\ result'[c] = RejectedStart) =>
                   UNCHANGED <<smvars, stream_thread, wpc>>]_vars
    /\ [](\A c \in Callers :
            (cpc[c] = "ret" /\ result[c] = RejectedStart) =>
                /\ snap[c].is_running
                /\ snap[c].max_turns = max_turns)

\* A rejected start is about to return its status while the stream runs.
C3_Witness ==
    \E c \in Callers :
        /\ cpc[c] = "ret"
        /\ result[c] = RejectedStart
        /\ is_running

\* C4: the status an accepted start(max_turns) returns is the state it has
\* just initialised: running, turn 0, empty topic, no errors, and max_turns
\* equal to the argument.
C4_FreshStatus ==
    \A c \in Callers :
        (cpc[c] = "ret" /\ result[c] = AcceptedStart) =>
            snap[c] = [is_running |-> TRUE, current_turn |-> 0,
                       current_topic |-> "", max_turns |-> carg[c],
                       errors |-> <<>>]

\* The step is a stop_stream call (the only call that completes in the
\* step that issues it).
StopStep == calls' # calls /\ cpc' = cpc

FailedStop == [op |-> "stop", success |-> FALSE]

\* C5: a stop that finds is_running false reports failure (HTTP 400) and
\* changes none of is_running, current_turn, current_topic, max_turns,
\* errors and stop_flag.
C5_FailedStopFrame ==
    [][(StopStep /\ ~is_running) =>
          /\ UNCHANGED <<smvars, stream_thread, wpc, lock>>
          /\ \E c \in Callers : result'[c] = FailedStop
          /\ \A c \in Callers :
                result'[c] # result[c] =>
                    /\ result'[c] = FailedStop
                    /\ Http(result'[c]) = HTTP_BAD_REQUEST]_vars

\* A stop was refused after a run had ended, with the run's leftovers
\* (topic) still in the state.
C5_Witness ==
    /\ ~is_running
    /\ current_topic # ""
    /\ \E c \in Callers : result[c] = FailedStop

\* The steps of one turn, from `self.current_turn = turn + 1` to the pause.
MidTurn == {"begin", "generate", "tts", "overlay", "transcript", "play", "pause"}

\* Where a step of a turn may lead: to the next step of the turn, or, when
\* generation or synthesis failed or the turn is over, to the turn boundary.
TurnSuccessors(pc) ==
    CASE pc = "begin" -> {"generate"}
      [] pc = "generate" -> {"tts", "check"}
      [] pc = "tts" -> {"overlay", "check"}
      [] pc = "overlay" -> {"transcript"}
      [] pc = "transcript" -> {"play"}
      [] pc = "play" -> {"pause"}
      [] pc = "pause" -> {"check"}

\* C6: the worker looks at the stop flag only at the turn boundary: a turn
\* that has begun goes through its remaining steps up to the next boundary
\* whether or not stop was accepted meanwhile, and the loop is left for the
\* teardown only from the boundary.
C6_CancelOnlyAtBoundary ==
    [][\A w \in Workers :
          /\ (wpc[w] \in MidTurn /\ wpc'[w] # wpc[w]) =>
                 wpc'[w] \in TurnSuccessors(wpc[w])
          /\ (wpc'[w] = "teardown" /\ wpc[w] # "teardown") =>
                 wpc[w] = "check"]_vars

\* Stop was accepted during a turn and the turn has still reached its pause.
C6_Witness ==
    /\ stop_flag
    /\ is_running
    /\ \E w \in Workers : wpc[w] = "pause"
    /\ \E c \in Callers : result[c] = [op |-> "stop", success |-> TRUE]

\* C7: once the stop flag is set, no boundary check lets another turn
\* begin, and the run reaches is_running = False; the stop call has
\* returned long before.
C7_StopTakesEffect ==
    /\ [][\A w \in Workers :
            (wpc[w] = "check" /\ wpc'[w] = "begin") => ~stop_flag]_vars
    /\ [][(StopStep /\ is_running) =>
            /\ stop_flag'
            /\ is_running'
            /\ \E c \in Callers : result'[c] = [op |-> "stop", success |-> TRUE]]_vars
    /\ (stop_flag /\ is_running) ~> ~is_running

\* stop has returned success while the worker is still inside a turn.
C7_Witness ==
    /\ stop_flag
    /\ is_running
    /\ \E w \in Workers : wpc[w] \in MidTurn
    /\ \E c \in Callers :
          result[c] = [op |-> "stop", success |-> TRUE] /\ cpc[c] = "idle"

\* C8: a worker thread ends only through its cleanup, which leaves
\* is_running false and current_turn 0; every run therefore reaches such a
\* state, and a start that takes the lock while nothing runs is accepted.
C8_CleanupAlways ==
    /\ [][\A w \in Workers :
            (wpc'[w] = "ended" /\ wpc[w] # "ended") =>
                /\ wpc[w] = "cl_turn"
                /\ ~is_running'
                /\ current_turn' = 0]_vars
    /\ [][\A c \in Callers :
            (EntersStart(c) /\ ~is_running) =>
                /\ result'[c] = AcceptedStart
                /\ is_running']_vars
    /\ is_running ~> (~is_running /\ current_turn = 0)

\* A second run was accepted after the first one ended through the fatal
\* path (setup failure): the first worker never reached a turn.
C8_Witness ==
    /\ stream_thread = 2
    /\ wpc[1] = "ended"
    /\ wpc[2] = "fatal"

\* C9: no status() snapshot reports is_running false together with a
\* current_turn greater than 0; stated for the calls issued during a run,
\* which overlap the worker's turns or its cleanup.
C9_CommittedSnapshot ==
    \A c \in Callers :
        (cpc[c] = "ret" /\ result[c].op = "status" /\ at_call[c]) =>
            ~(~snap[c].is_running /\ snap[c].current_turn > 0)

\* C10: current_turn changes only by growing, in the step that begins a
\* turn, or by being reset to 0 in the worker's cleanup; an accepted start
\* writes 0 over 0.
C10_TurnMonotone ==
    /\ [][current_turn' # current_turn =>
            \/ /\ current_turn' > current_turn
               /\ \E w \in Workers : wpc[w] = "begin" /\ wpc'[w] = "generate"
            \/ /\ current_turn' = 0
               /\ \E w \in Workers : wpc[w] = "cl_turn" /\ wpc'[w] = "ended"]_vars
    /\ [][\A c \in Callers :
            (EntersStart(c) /\ ~is_running) =>
                current_turn = 0 /\ current_turn' = 0]_vars

\* The second turn of a run has begun.
C10_Witness ==
    /\ current_turn = 2
    /\ \E w \in Workers : wpc[w] = "generate" /\ turn[w] = 1

\* C11: the errors entry of a status is, whatever the number n of recorded
\* errors at the moment get_status reads them, the last min(n, 10) of them
\* in their recorded order, so it never has more than 10 entries.
C11_LastTenErrors ==
    /\ [][\A c \in Callers :
            (cpc[c] = "st_errors" /\ cpc'[c] = "ret") =>
                LET got == snap'[c].errors
                    n == Len(errors)
                    k == IF n < 10 THEN n ELSE 10
                IN /\ Len(got) = k
                   /\ \A i \in 1..k : got[i] = errors[n - k + i]]_vars
    /\ [](\A c \in Callers : Len(snap[c].errors) <= 10)

\* A status shows 10 errors, the oldest of them the error of the third
\* turn, of a run that has recorded 12.
C11_Witness ==
    \E c \in Callers :
        /\ cpc[c] = "ret"
        /\ result[c].op = "status"
        /\ Len(errors) = 12
        /\ Len(snap[c].errors) = 10
        /\ snap[c].errors[1] = TurnError(2, "TTS failed")

\* The step in which worker w emits the opening line / the utterance of
\* its turn (overlay, transcript, playback).
EmitsOpening(w) == wpc[w] = "opening_out" /\ wpc'[w] = "check"
EmitsTurn(w) == wpc[w] = "transcript" /\ wpc'[w] = "play"

\* The turn before the one in progress was skipped: errors holds its
\* "Turn <number>" entry.
PrevSkipped(w) == \E i \in 1..Len(errors) : errors[i].turn = turn[w]

EndsTurn(w) == wpc[w] \in {"generate", "tts", "pause"} /\ wpc'[w] = "check"

\* The step switches the topic: current_topic changes to another topic
\* and the switch is recorded for the turn.
SwitchesTopic(w) ==
    /\ current_topic' # current_topic
    /\ current_topic' \in TOPICS
    /\ topic_switches'[w] = topic_switches[w] \cup {turn[w]}
    /\ topic_switches'[w] # topic_switches[w]

\* C13: the step that ends turn i switches the topic exactly when
\* (i+1) mod 8 = 0 and i < max_turns - 2, whether the turn went through,
\* its synthesis failed or it raised.
C13_SwitchWhateverOutcome ==
    [][\A w \in Workers :
          EndsTurn(w) =>
              (SwitchesTopic(w) <=>
                  ((turn[w] + 1) % 8 = 0 /\ turn[w] < max_turns - 2))]_vars

\* Worker w has left the loop of a run in which every call succeeded.
CompleteRun(w, n) ==
    /\ env = "ok"
    /\ wpc[w] = "teardown"
    /\ max_turns = n
    /\ successful_turns[w] = n

\* C14 as stated: with TOPIC_SWITCH_EVERY = 8 and every turn succeeding, a
\* complete run of 10 turns switches the topic never and a complete run of
\* 20 turns switches it once, after turn index 7.
C14_SwitchCountsStated ==
    \A w \in Workers :
        /\ CompleteRun(w, 10) => topic_switches[w] = {}
        /\ CompleteRun(w, 20) => topic_switches[w] = {7}

\* C14 amended: with TOPIC_SWITCH_EVERY = 8 and every turn succeeding, a
\* complete run of 10 turns switches the topic once, after turn index 7
\* (7 < 10 - 2), and a complete run of 20 turns switches it twice, after
\* turn indices 7 and 15.
C14_SwitchCounts ==
    \A w \in Workers :
        /\ CompleteRun(w, 10) => topic_switches[w] = {7}
        /\ CompleteRun(w, 20) => topic_switches[w] = {7, 15}

\* A run of 20 successful turns has left its loop after two switches.
C14_Witness ==
    \E w \in Workers : CompleteRun(w, 20) /\ topic_switches[w] = {7, 15}

\* The step in which generate_response, called by worker w, makes the last
\* attempt its retry policy allows (the first and 3 retries have failed).
LastAttemptEnds(w) ==
    /\ wpc[w] = "generate"
    /\ attempt[w] = GEN_MAX_RETRIES
    /\ wpc'[w] # "generate"

\* C15: when the last attempt of generate_response fails too, the turn
\* takes the fallback text and goes on to the synthesis; no error is
\* recorded and the turn is not counted as failed.
C15_FallbackOnExhaustion ==
    [][\A w \in Workers :
          (LastAttemptEnds(w) /\ text'[w] # "reply") =>
              /\ wpc'[w] = "tts"
              /\ text'[w] = "fallback"
              /\ failed_turns'[w] = failed_turns[w]
              /\ errors' = errors]_vars

\* The step in which the text_to_speech call of a turn of worker w ends.
SynthesisEnds(w) == wpc[w] = "tts" /\ wpc'[w] # "tts"

\* C16: the synthesis of turn i either succeeds, and then nothing is
\* recorded and the turn goes on to the overlay, or fails (False or an
\* exception after the retries), and then exactly one error, carrying the
\* turn's number, is appended, failed_turns grows by one, nothing is
\* emitted and the worker is at the boundary before turn i+1.  Overlay,
\* transcript and playback of a turn are reached only through its
\* successful synthesis.
C16_SynthesisFailureSkipsTurn ==
    [][\A w \in Workers :
          /\ SynthesisEnds(w) =>
                \/ /\ wpc'[w] = "overlay"
                   /\ errors' = errors
                   /\ failed_turns'[w] = failed_turns[w]
                   /\ turn'[w] = turn[w]
                \/ /\ wpc'[w] = "check"
                   /\ Len(errors') = Len(errors) + 1
                   /\ SubSeq(errors', 1, Len(errors)) = errors
                   /\ errors'[Len(errors')].turn = turn[w] + 1
                   /\ failed_turns'[w] = failed_turns[w] + 1
                   /\ successful_turns'[w] = successful_turns[w]
                   /\ spoke'[w] = spoke[w]
                   /\ turn'[w] = turn[w] + 1
          /\ (wpc'[w] = "overlay" /\ wpc[w] # "overlay") => wpc[w] = "tts"
          /\ (wpc'[w] = "transcript" /\ wpc[w] # "transcript") => wpc[w] = "overlay"
          /\ (wpc'[w] = "play" /\ wpc[w] # "play") => wpc[w] = "transcript"]_vars

\* The synthesis of the first turn failed, after an opening line that was
\* emitted, and the worker is generating the second turn.
C16_Witness ==
    \E w \in Workers :
        /\ wpc[w] = "generate"
        /\ turn[w] = 1
        /\ errors = <<TurnError(0, "TTS failed")>>
        /\ failed_turns[w] = 1
        /\ successful_turns[w] = 0
        /\ spoke[w] = "agent1"

\* The step in which a turn of worker w ends in the per-turn handler or in
\* the `continue` of a failed synthesis.
TurnFails(w) == wpc[w] \in {"generate", "tts"} /\ wpc'[w] \notin {"generate", "tts", "overlay"}

\* C17: a turn that fails is caught at that turn: one error is appended,
\* failed_turns grows by one and the worker is at the next boundary; the
\* fatal path is entered from the setup, the opening line and the teardown
\* only; the loop is left at a boundary only, and when no stop was
\* requested it is left after exactly max_turns turns, each of them counted
\* as successful or as failed.
C17_TurnFailuresIsolated ==
    [][\A w \in Workers :
          /\ TurnFails(w) =>
                /\ wpc'[w] = "check"
                /\ Len(errors') = Len(errors) + 1
                /\ errors'[Len(errors')].turn = turn[w] + 1
                /\ failed_turns'[w] = failed_turns[w] + 1
                /\ turn'[w] = turn[w] + 1
          /\ (wpc'[w] = "fatal" /\ wpc[w] # "fatal") =>
                wpc[w] \in {"setup", "opening", "teardown"}
          /\ (wpc'[w] = "teardown" /\ wpc[w] # "teardown") =>
                /\ wpc[w] = "check"
                /\ ~stop_flag =>
                      /\ turn[w] = max_turns
                      /\ successful_turns[w] + failed_turns[w] = max_turns]_vars

\* A run of two turns has left its loop unstopped: the first turn raised,
\* the second went through.
C17_Witness ==
    \E w \in Workers :
        /\ wpc[w] = "teardown"
        /\ ~stop_flag
        /\ max_turns = 2
        /\ turn[w] = 2
        /\ errors = <<TurnError(0, "exception")>>
        /\ successful_turns[w] = 1

\* Positions of a worker from the outer handler to the end of the thread.
AfterFatal == {"fatal", "cleanup", "cl_running", "cl_turn", "ended"}

\* C18: a failure of the setup, of the opening line's synthesis or of the
\* teardown takes the worker to the outer handler at once; the handler
\* appends one error with the Fatal marker; from there the worker only goes
\* through the cleanup, which ends with is_running false and current_turn
\* 0, and no turn begins; and every worker that reaches the handler reaches
\* a state with is_running false and current_turn 0.
C18_FatalEndsRun ==
    /\ [][\A w \in Workers :
            /\ (wpc[w] = "setup" /\ wpc'[w] \notin {"setup", "topic"}) => wpc'[w] = "fatal"
            /\ (wpc[w] = "teardown" /\ wpc'[w] \notin {"teardown", "cleanup"}) => wpc'[w] = "fatal"
            /\ (wpc[w] = "fatal" /\ wpc'[w] # "fatal") =>
                  /\ wpc'[w] = "cleanup"
                  /\ Len(errors') = Len(errors) + 1
                  /\ SubSeq(errors', 1, Len(errors)) = errors
                  /\ errors'[Len(errors')].what = "Fatal"
            /\ wpc[w] \in AfterFatal => wpc'[w] \in AfterFatal
            /\ (wpc'[w] = "ended" /\ wpc[w] # "ended") =>
                  ~is_running' /\ current_turn' = 0]_vars
    /\ (\E w \in Workers : wpc[w] = "fatal") ~> (~is_running /\ current_turn = 0)

\* A run of one turn whose synthesis failed and whose teardown raised has
\* ended: both errors are recorded and the state is reset.
C18_Witness ==
    /\ wpc[1] = "ended"
    /\ errors = <<TurnError(0, "TTS failed"), FatalError>>
    /\ ~is_running
    /\ current_turn = 0

\* C19: in every run, for every pattern of successes and failures of its
\* turns, each finished turn is counted once, as successful or as failed,
\* so successful_turns + failed_turns never exceeds max_turns, during the
\* run and when it has ended; and the end of the run leaves current_turn 0.
C19_TurnsCountedOnce ==
    /\ [](\A w \in Workers :
            /\ turn[w] <= max_turns
            /\ successful_turns[w] + failed_turns[w] <= max_turns
            /\ successful_turns[w] + failed_turns[w] =
                   IF wpc[w] = "pause" THEN turn[w] + 1 ELSE turn[w])
    /\ [][\A w \in Workers :
            (wpc'[w] = "ended" /\ wpc[w] # "ended") => current_turn' = 0]_vars

\* A run of two turns has ended naturally, with one successful and one
\* failed turn, and is resetting current_turn.
C19_Witness ==
    \E w \in Workers :
        /\ wpc[w] = "cl_turn"
        /\ ~stop_flag
        /\ max_turns = 2
        /\ successful_turns[w] = 1
        /\ failed_turns[w] = 1
        /\ current_turn = 2

\* C20: when every call succeeds, a run started with start_stream(n) emits
\* the opening line before its first turn, begins its turns with
\* current_turn going 1, 2, ... n one by one, leaves the loop after n
\* successful turns with no error recorded, never takes the fatal path, and
\* ends with is_running false and current_turn 0.
C20_CleanRun ==
    /\ [][\A w \in Workers :
            env = "ok" =>
                /\ (wpc[w] = "check" /\ wpc'[w] = "begin" /\ turn[w] = 0) =>
                       spoke[w] = "agent1" /\ current_turn = 0
                /\ (wpc[w] = "begin" /\ wpc'[w] = "generate") =>
                       /\ current_turn' = current_turn + 1
                       /\ current_turn' = turn[w] + 1
                       /\ current_turn' <= max_turns
                /\ (wpc[w] = "check" /\ wpc'[w] = "teardown") =>
                       /\ current_turn = max_turns
                       /\ successful_turns[w] = max_turns
                       /\ errors = <<>>
                /\ wpc'[w] # "fatal"]_vars
    /\ (env = "ok" /\ is_running) ~>
           (~is_running /\ current_turn = 0 /\ wpc[1] = "ended")

\* The run started with start_stream(1) has ended without an error.
C20_Witness ==
    /\ env = "ok"
    /\ max_turns = 1
    /\ wpc[1] = "ended"
    /\ ~is_running
    /\ current_turn = 0
    /\ errors = <<>>

\* ----------------------------------------------------- retry_with_backoff
\* Invocation i of the function raised an exception of a retryable class.
RetryableFailure(i) ==
    r_calls[i].kind = "error" /\ r_calls[i].class \in r_exceptions

\* The function failed retryably n times and then returned a value.
FailedThenSucceeded(n) ==
    /\ Len(r_calls) = n + 1
    /\ \A i \in 1..n : RetryableFailure(i)
    /\ r_calls[n + 1].kind = "value"

RECURSIVE SumSeq(_)
SumSeq(q) == IF q = <<>> THEN 0 ELSE Head(q) + SumSeq(Tail(q))

\* C21: with max_retries = N and base_delay = d the function is invoked at
\* most N+1 times; a returned value is the value of the first invocation
\* that succeeded, which is the last one made; the k-th sleep (k counted
\* from 0) follows failed attempt k and lasts d * 2^k; with N = 3, d = 1 a
\* function failing 3 times and then succeeding returns that value after
\* sleeps of 1, 2 and 4, 7 in total.
C21_BackoffSchedule ==
    /\ Len(r_calls) <= r_max + 1
    /\ r_result.kind = "returned" =>
          /\ r_result.what = r_calls[Len(r_calls)]
          /\ r_result.what.kind = "value"
          /\ \A i \in 1..(Len(r_calls) - 1) : r_calls[i].kind = "error"
    /\ \A k \in 0..(Len(r_slept) - 1) :
          /\ r_slept[k + 1] = r_base * 2 ^ k
          /\ RetryableFailure(k + 1)
    /\ Len(r_slept) = IF r_pc = "call" THEN Len(r_calls) ELSE Len(r_calls) - 1
    /\ (r_max = 3 /\ r_base = 1 /\ FailedThenSucceeded(3)) =>
          /\ r_result = [kind |-> "returned", what |-> r_calls[4]]
          /\ r_slept = <<1, 2, 4>>
          /\ SumSeq(r_slept) = 7

\* With max_retries = 3 and base_delay = 1 the function has failed three
\* times and the fourth invocation has returned.
C21_Witness ==
    /\ r_max = 3
    /\ r_base = 1
    /\ FailedThenSucceeded(3)
    /\ r_pc = "done"
    /\ r_result.kind = "returned"

\* C22: when all N+1 invocations fail retryably the wrapper raises the
\* exception of the last invocation and returns no value; it has slept N
\* times, never after the last attempt; with N = 3 a function failing 4
\* times raises.
C22_RaisesFinalFailure ==
    /\ (Len(r_calls) = r_max + 1 /\ \A i \in 1..(r_max + 1) : RetryableFailure(i)) =>
          /\ r_pc = "done"
          /\ r_result = [kind |-> "raised", what |-> r_calls[r_max + 1]]
          /\ r_result.what.id = r_max
          /\ Len(r_slept) = r_max
    /\ r_pc = "sleep" => r_attempt < r_max
    /\ (r_max = 3 /\ Len(r_calls) = 4 /\ \A i \in 1..4 : RetryableFailure(i)) =>
          r_result.kind = "raised"

\* With max_retries = 3 the function has failed four times and the
\* wrapper has raised after three sleeps.
C22_Witness ==
    /\ r_max = 3
    /\ Len(r_calls) = 4
    /\ \A i \in 1..4 : RetryableFailure(i)
    /\ r_result.kind = "raised"
    /\ Len(r_slept) = 3

\* Invocation i of the function raised an exception of a class outside
\* `exceptions`.
OtherFailure(i) ==
    r_calls[i].kind = "error" /\ r_calls[i].class \notin r_exceptions

\* C23: an exception of a class outside `exceptions` leaves the wrapper
\* from the attempt that raised it: that invocation is the last one, the
\* wrapper raises that exception and no sleep follows it.
C23_NonRetryablePropagates ==
    /\ \A i \in 1..Len(r_calls) :
          OtherFailure(i) =>
              /\ i = Len(r_calls)
              /\ r_pc = "done"
              /\ r_result = [kind |-> "raised", what |-> r_calls[i]]
              /\ Len(r_slept) = i - 1
    /\ [][(r_pc = "call" /\ Len(r_calls') = Len(r_calls) + 1
               /\ r_calls'[Len(r_calls')].kind = "error"
               /\ r_calls'[Len(r_calls')].class \notin r_exceptions) =>
              (r_pc' = "done" /\ r_slept' = r_slept)]_vars

\* The second invocation raised an exception outside `exceptions` with
\* retries left: the wrapper has raised after the one sleep before it.
C23_Witness ==
    /\ r_max = 3
    /\ Len(r_calls) = 2
    /\ RetryableFailure(1)
    /\ OtherFailure(2)
    /\ r_result.kind = "raised"
    /\ r_slept = <<r_base>>

\* ------------------------------------------------------- transcript queue
\* The messages taken off the queue, in the order they were taken.
PoppedMessages == [i \in 1..Len(popped) |-> popped[i].message]

\* The step in which connection o takes a message off the queue.
Pops(o) == opc[o] = "poll" /\ opc'[o] = "send"

\* C24: the messages are taken off the queue in the order the worker put
\* them on it: the i-th message popped is the i-th message pushed, whoever
\* pops it and however the pops interleave with the pushes, and every pop
\* takes the oldest message that is on the queue.
C24_PopsInPushOrder ==
    /\ [](/\ Len(popped) <= Len(pushed)
          /\ \A i \in 1..Len(popped) : popped[i].message = pushed[i])
    /\ [][\A o \in Observers :
            Pops(o) =>
                /\ msg'[o] = pushed[Len(popped) + 1]
                /\ msg'[o] = Head(transcript_queue)
                /\ Len(popped') = Len(popped) + 1]_vars

\* The three messages of a run of two turns have been popped in their
\* order, the first two by different connections.
C24_Witness ==
    /\ Len(pushed) = 3
    /\ Len(popped) = 3
    /\ pushed[1].turn = 0 /\ pushed[2].turn = 1 /\ pushed[3].turn = 2
    /\ popped[1].by = "o1"
    /\ popped[2].by = "o2"

\* C25: with several connections draining the queue, every pushed message
\* is at all times either still on the queue or popped by exactly one
\* connection: the popped messages followed by the queue are the pushed
\* messages, and a pop hands the message to the popping connection only.
C25_PoppedOnceNeverDropped ==
    /\ [](/\ pushed = PoppedMessages \o transcript_queue
          /\ \A i \in 1..Len(popped) : popped[i].by \in Observers)
    /\ [][\A o \in Observers :
            Pops(o) =>
                /\ popped' = Append(popped, [message |-> msg'[o], by |-> o])
                /\ transcript_queue' = Tail(transcript_queue)
                /\ \A q \in Observers \ {o} : msg'[q] = msg[q]]_vars

\* Two connections hold a message each, at the same time, and a third
\* message is still on the queue.
C25_Witness ==
    /\ opc["o1"] = "send"
    /\ opc["o2"] = "send"
    /\ msg["o1"] # msg["o2"]
    /\ Len(transcript_queue) = 1
    /\ Len(pushed) = 3

\* The run is over and everything it pushed has been delivered or lost.
RunDrained ==
    /\ \E w \in Workers : wpc[w] = "ended"
    /\ transcript_queue = <<>>
    /\ \A o \in Observers : opc[o] # "send"

\* C26: every connection that was open before the run pushed its first
\* message and is still open when the run is over and the queue drained
\* has received every message the run pushed.
C26_EveryObserverReceivesAll ==
    RunDrained =>
        \A o \in Observers :
            (opc[o] = "poll" /\ early[o]) => received[o] = pushed

\* ---------------------------------------------------------- idle animation
\* C27: whatever way the worker leaves (the loop exhausted, a stop
\* observed, a fatal failure after start_idle_animation), the flag of the
\* idle animation has been cleared by the time the cleanup sets
\* is_running to False: no state after a run shows is_running false and
\* the idle flag on.
C27_IdleStoppedOnEveryExit ==
    \A w \in Workers :
        (wpc[w] \in {"cl_turn", "ended"} /\ ~is_running) =>
            ~idle_thread_running

\* ------------------------------------------------------------------ _lock
\* C28: every step that changes is_running, current_turn, current_topic,
\* max_turns, errors or stop_flag is made by a thread that holds _lock:
\* start_stream as it takes the lock, stop_stream inside its `with`
\* block, or the worker while it holds the lock.
C28_WritesUnderGuard ==
    [][smvars' # smvars =>
          \/ \E c \in Callers : EntersStart(c) /\ lock' = c
          \/ StopStep
          \/ lock = "worker"]_vars

\* Positions at which the worker is in a call of a collaborator (Groq,
\* ElevenLabs, OBS, the overlay and transcript files, playback) or asleep.
ExternalCall == {"setup", "opening", "opening_out", "generate", "tts",
                 "overlay", "transcript", "play", "pause", "teardown"}

\* Positions of a start_stream call inside its `with self._lock` block:
\* the check-and-set is done and get_status builds the returned status.
InsideStart == {"st_running", "st_turn", "st_topic", "st_max", "st_errors", "ret"}

\* C29: the worker holds _lock only for the two assignments of its
\* cleanup, never at a position where it calls a collaborator or sleeps;
\* a caller holds it only inside start_stream, from the check-and-set to
\* the return of the status; a start that waits for the lock while no
\* other request is being served waits for a worker that is inside those
\* two assignments, never for one that is in an external call; and the
\* lock, once taken, is always released.
C29_GuardNeverAcrossExternalCall ==
    /\ [](\A w \in Workers : wpc[w] \in ExternalCall => lock # "worker")
    /\ [](lock = "worker" =>
            \E w \in Workers : wpc[w] \in {"cl_running", "cl_turn"})
    /\ [](\A c \in Callers :
            lock = c => cpc[c] \in InsideStart /\ result[c].op = "start")
    /\ [](\A c \in Callers :
            (cpc[c] = "start_wait" /\ LoopFree /\ lock # "free") =>
                /\ lock = "worker"
                /\ \A w \in Workers : wpc[w] \notin ExternalCall)
    /\ (lock # "free") ~> (lock = "free")

\* A start call waits for the lock while the worker of the previous run is
\* inside its cleanup.
C29_Witness ==
    /\ cpc[Operator] = "start_wait"
    /\ lock = "worker"
    /\ wpc[1] = "cl_turn"

\* ------------------------------------------------------------ topic switch
\* The step in which worker w switches the topic.
TopicSwitchStep(w) == topic_switches'[w] \ topic_switches[w] # {}

\* C30: the step that switches the topic leaves in current_topic a member
\* of TOPICS other than the topic in force before the step, and leaves
\* conversation_history empty.
C30_SwitchPicksOtherTopicAndClearsHistory ==
    [][\A w \in Workers :
          TopicSwitchStep(w) =>
              /\ current_topic' \in TOPICS
              /\ current_topic' # current_topic
              /\ conversation_history' = <<>>]_vars

\* A run of 20 turns has made its second switch, after turn index 15: the
\* history is empty and the topic marker is the newest message on the
\* queue.
C30_Witness ==
    \E w \in Workers :
        /\ wpc[w] = "check"
        /\ turn[w] = 16
        /\ topic_switches[w] = {7, 15}
        /\ conversation_history = <<>>
        /\ current_topic \in TOPICS
        /\ transcript_queue[Len(transcript_queue)] =
               [agent_name |-> "", topic |-> current_topic, turn |-> 16]

\* ------------------------------------------------------- the opening line
\* The step in which the synthesis of worker w's opening line fails: it
\* returns False or raises after its retries.
OpeningFails(w) == wpc[w] = "opening" /\ wpc'[w] \notin {"opening", "opening_out"}

\* C34: a failed synthesis of the opening line skips the opening's effects
\* only: the worker goes on to the boundary of turn index 0 with nothing
\* recorded, and never to the outer handler.
C34_FailedOpeningNeverAborts ==
    [][\A w \in Workers :
          OpeningFails(w) =>
              /\ wpc'[w] = "check"
              /\ turn'[w] = 0
              /\ errors' = errors]_vars

\* --------------------------------------------------------- errors per run
\* No fatal error has been recorded since the last accepted start.
NoFatal == \A i \in 1..Len(errors) : errors[i] # FatalError

\* The step is one of a turn whose synthesis succeeded.
SuccessfulTurnStep(w) == wpc[w] \in {"overlay", "transcript", "play", "pause"}

\* C39: while a run is in flight and has recorded no fatal error, errors
\* holds one entry per failed turn: their number is failed_turns, the
\* entries carry the 1-based numbers of the failed turns in increasing
\* order, the step in which a turn fails appends exactly the entry of that
\* turn, and the steps of a successful turn leave errors alone.
C39_ErrorsCountFailedTurns ==
    /\ [](\A w \in Workers :
            (InFlight(w) /\ NoFatal) =>
                /\ Len(errors) = failed_turns[w]
                /\ \A i \in 1..Len(errors) :
                      /\ errors[i].turn \in 1..turn[w]
                      /\ \A j \in 1..Len(errors) :
                            i < j => errors[i].turn < errors[j].turn)
    /\ [][\A w \in Workers :
            /\ TurnFails(w) =>
                  /\ Len(errors') = Len(errors) + 1
                  /\ SubSeq(errors', 1, Len(errors)) = errors
                  /\ errors'[Len(errors')].turn = turn[w] + 1
            /\ (SuccessfulTurnStep(w) /\ wpc'[w] # wpc[w]) =>
                  errors' = errors]_vars

\* A run of two turns is about to end without a fatal error: its first
\* turn went through, the synthesis of its second returned False, and
\* errors holds the one entry of turn 2.
C39_Witness ==
    \E w \in Workers :
        /\ wpc[w] = "cl_running"
        /\ max_turns = 2
        /\ successful_turns[w] = 1
        /\ failed_turns[w] = 1
        /\ errors = <<TurnError(1, "TTS failed")>>

\* ------------------------------------------- construction of the singleton
\* C35: however the StreamManager() calls of several threads interleave,
\* one object is created, its fields are initialised once and its queue is
\* created once, no construction fails, and no message put on the queue is
\* lost to a later initialisation.
C35_InitialisedExactlyOnce ==
    /\ instance <= 1
    /\ init_runs <= 1
    /\ queues <= 1
    /\ \A b \in Builders : bpc[b] # "raised"
    /\ Len(transcript_queue) = Len(pushed)

\* ---------------------------------------------------------- idle animation
\* Positions of a worker between the end of its setup and its teardown.
AfterSetup == {"topic", "opening", "opening_out", "check"} \cup MidTurn

\* C33: while a worker is between its setup and its teardown, an idle
\* loop is alive for agent1 and one for agent2.
C33_IdleLoopForEachAgent ==
    \A w \in Workers :
        wpc[w] \in AfterSetup => \A a \in Agents : idle_loops[a] >= 1

\* C37: at no time are two idle loops alive for the same agent: the loop
\* a run started has ended, once the teardown of that run cleared the
\* flag, before the setup of a later run starts a loop of its own.
C37_OneIdleLoopPerAgent == \A a \in Agents : idle_loops[a] <= 1

\* ------------------------------------------------------ stop across runs
\* The step in which a start is accepted.
StartAccepted == \E c \in Callers : EntersStart(c) /\ ~is_running

\* The step in which worker w leaves its loop before the last turn.
EndsEarly(w) == wpc[w] = "check" /\ wpc'[w] = "teardown" /\ turn[w] < max_turns

\* C36: the step that accepts a start leaves the stop flag cleared and
\* the new worker spawned; the flag is set by an accepted stop only and
\* cleared by an accepted start only; and a worker leaves its loop early
\* only when it finds the flag set.  A flag a run finds set was therefore
\* set by a stop accepted after that run's start.
C36_StopNeverCarriesOver ==
    [][/\ StartAccepted =>
              /\ ~stop_flag'
              /\ wpc'[stream_thread'] = "setup"
       /\ (stop_flag' /\ ~stop_flag) => (StopStep /\ is_running)
       /\ (~stop_flag' /\ stop_flag) => StartAccepted
       /\ \A w \in Workers : EndsEarly(w) => stop_flag]_vars

\* Every call succeeds; the first run pushed its opening line only, so it
\* was stopped before its first turn; the second run is inside its first
\* turn with the stop flag cleared.
C36_Witness ==
    /\ env = "ok"
    /\ stream_thread = 2
    /\ wpc[1] = "ended"
    /\ wpc[2] = "generate"
    /\ ~stop_flag
    /\ Len(pushed) = 2
    /\ \A i \in 1..2 : pushed[i].agent_name = OpeningAgent /\ pushed[i].turn = 0

\* ------------------------------------------------- history across the runs
\* The step in which generate_response returns its text to worker w.
GeneratesText(w) == wpc[w] = "generate" /\ wpc'[w] = "tts"

\* C40: conversation_history changes in two ways only: generate_response
\* appends the text it returns, and a topic switch empties it.  The step
\* that accepts a start and the worker's setup, teardown and cleanup
\* leave it as it is.
C40_HistoryEmptiedBySwitchOnly ==
    [][/\ conversation_history' # conversation_history =>
              \E w \in Workers :
                  \/ /\ GeneratesText(w)
                     /\ conversation_history' =
                            Append(conversation_history, text'[w])
                  \/ /\ TopicSwitchStep(w)
                     /\ conversation_history' = <<>>
       /\ StartAccepted => conversation_history' = conversation_history
       /\ \A w \in Workers :
              (wpc[w] \in {"setup", "teardown", "fatal", "cleanup",
                           "cl_running", "cl_turn"} /\ wpc'[w] # wpc[w]) =>
                  conversation_history' = conversation_history]_vars

\* The first turn of the second run calls generate_response while the
\* history still holds the two replies of the first run.
C40_Witness ==
    /\ stream_thread = 2
    /\ wpc[1] = "ended"
    /\ wpc[2] = "generate"
    /\ turn[2] = 0
    /\ conversation_history = <<"reply", "reply">>

\* ------------------------------------------------- the queue across the runs
\* The messages pushed and not yet taken off the queue, oldest first.
Unpopped == SubSeq(pushed, Len(popped) + 1, Len(pushed))

\* C38: the step that accepts a start leaves the queue as it is; in every
\* state, whether a run is active, has ended or a later one has started,
\* the queue holds exactly the messages pushed and not yet taken, in push
\* order; and a connection that polls takes the oldest of them.
C38_QueueSurvivesStart ==
    /\ [][StartAccepted =>
              /\ transcript_queue' = transcript_queue
              /\ pushed' = pushed]_vars
    /\ [](transcript_queue = Unpopped)
    /\ [](\A i \in 1..Len(popped) : popped[i].message = pushed[i])

\* The second run has pushed its opening line; the connection, opened
\* after the first push, has so far taken one message off the queue, the
\* opening line of the first run, and the queue still holds the rest of
\* the first run ahead of the second run's opening line.
C38_Witness ==
    /\ stream_thread = 2
    /\ wpc[1] = "ended"
    /\ wpc[2] = "generate"
    /\ opc[Viewer] = "send"
    /\ ~early[Viewer]
    /\ Len(popped) = 1
    /\ msg[Viewer] = pushed[1]
    /\ Len(transcript_queue) >= 2
    /\ transcript_queue[1].turn = 1
    /\ transcript_queue[Len(transcript_queue)].turn = 0

\* ------------------------------------------------------ the transcript sink
\* The step adds line l to the transcript file and message m to the queue.
Forwarded(l, m) ==
    /\ transcript_file' = Append(transcript_file, l)
    /\ pushed' = Append(pushed, m)
    /\ transcript_queue' = Append(transcript_queue, m)

\* The step leaves the transcript file and the queue's input alone.
NothingLogged == transcript_file' = transcript_file /\ pushed' = pushed

\* The message of the turn worker w is in.
TurnMessage(w) ==
    [agent_name |-> AgentKey(turn[w]), topic |-> "", turn |-> turn[w] + 1]

\* The newest line of the transcript file is the line of w's turn.
TurnLineWritten(w) ==
    /\ transcript_file # <<>>
    /\ transcript_file[Len(transcript_file)] = FileLine(TurnMessage(w))

CallsLogMessage(w) ==
    \/ wpc[w] = "opening_out" /\ wpc'[w] # "opening_out"
    \/ wpc[w] = "transcript" /\ wpc'[w] # "transcript"
    \/ TopicSwitchStep(w)

\* C32: every call of log_message adds exactly one line to the transcript
\* file and exactly one message to the queue, the message of that line,
\* whether or not the file could be written; no other step adds any
\* (init_transcript, in the setup, starts the file afresh).
C32_ForwardedToBoth ==
    [][/\ \A w \in Workers :
              CallsLogMessage(w) =>
                  /\ Len(pushed') = Len(pushed) + 1
                  /\ SubSeq(pushed', 1, Len(pushed)) = pushed
                  /\ transcript_file' =
                         Append(transcript_file,
                                FileLine(pushed'[Len(pushed')]))
                  /\ transcript_queue' =
                         Append(transcript_queue, pushed'[Len(pushed')])
       /\ (\A w \in Workers : ~CallsLogMessage(w)) =>
              /\ pushed' = pushed
              /\ Len(transcript_file') <= Len(transcript_file)]_vars

====
